---- MODULE Spec2Model ----
(***************************************************************************)
(* Model of mpf/core/segment_mappings.py: the per-family character tables, *)
(* the Segment value classes (copy_with_dp_on, __eq__) and the three       *)
(* TextToSegmentMapper entry points.                                       *)
(*                                                                         *)
(* Python objects live in a heap.  A reference is a pair: <<table, key>>   *)
(* names the object stored in a module-level table under that key, and     *)
(* <<"new", n>> names the n-th object created after module initialisation. *)
(* The variable heap holds every object created or written after module    *)
(* initialisation; an object absent from heap still has the value the      *)
(* module gave it when it built the tables.                                *)
(*                                                                         *)
(* An object is a function from attribute names to values, with its class  *)
(* under "__class__".  A one-character string (a label, a character of a   *)
(* text) is written as its code point, so the label "1" is 49; the dict    *)
(* key None is written None == -1, which is no code point.                 *)
(***************************************************************************)
EXTENDS Integers, Sequences, FiniteSets, TLC

\* The key None of the tables (lines 162, 232, 360, 515, 744, 1076).
None == -1

\* ord(" ") and ord("."), lines 43 and 87.
SPACE == 32
PERIOD == 46

----------------------------------------------------------------------------
(* The Segment classes: __init__ of each class, lines 110-113, 144-150,    *)
(* 204-213, 341-351, 472-488, 722-740, 1061-1064.                          *)

Object(cls, attrs) == ("__class__" :> cls) @@ attrs

BcdSegments(dp, x3, x2, x1, x0, char) ==
    Object("BcdSegments",
           [dp |-> dp, char |-> char, x0 |-> x0, x1 |-> x1, x2 |-> x2, x3 |-> x3])

SevenSegments(dp, g, f, e, d, c, b, a, char) ==
    Object("SevenSegments",
           [dp |-> dp, char |-> char, a |-> a, b |-> b, c |-> c, d |-> d,
            e |-> e, f |-> f, g |-> g])

EightSegments(dp, h, g, f, e, d, c, b, a, char) ==
    Object("EightSegments",
           [dp |-> dp, char |-> char, a |-> a, b |-> b, c |-> c, d |-> d,
            e |-> e, f |-> f, g |-> g, h |-> h])

FourteenSegments(dp, l, m, n, k, j, h, g2, g1, f, e, d, c, b, a, char) ==
    Object("FourteenSegments",
           [dp |-> dp, char |-> char, a |-> a, b |-> b, c |-> c, d |-> d,
            e |-> e, f |-> f, g1 |-> g1, g2 |-> g2, h |-> h, j |-> j,
            k |-> k, n |-> n, m |-> m, l |-> l])

SixteenSegments(dp, u, t, s, r, p, m, n, k, h, g, f, e, d, c, b, a, char) ==
    Object("SixteenSegments",
           [dp |-> dp, char |-> char, a |-> a, b |-> b, c |-> c, d |-> d,
            e |-> e, f |-> f, g |-> g, h |-> h, k |-> k, n |-> n, m |-> m,
            p |-> p, r |-> r, s |-> s, t |-> t, u |-> u])

AsciiSegment(dp, ascii_value, char) ==
    Object("AsciiSegment",
           [dp |-> dp, char |-> char, ascii_value |-> ascii_value])

\* __slots__ of Segment and of each subclass, lines 108, 141, 201, 338, 467,
\* 717 and 1059: the data attributes of an object of the class.
Slots(cls) ==
    {"dp", "char"} \cup
    CASE cls = "BcdSegments" -> {"x3", "x2", "x1", "x0"}
      [] cls = "SevenSegments" -> {"g", "f", "e", "d", "c", "b", "a"}
      [] cls = "EightSegments" -> {"h", "g", "f", "e", "d", "c", "b", "a"}
      [] cls = "FourteenSegments" -> {"l", "m", "n", "k", "j", "h", "g2", "g1", "f",
                                      "e", "d", "c", "b", "a"}
      [] cls = "SixteenSegments" -> {"u", "t", "s", "r", "p", "m", "n", "k", "h", "g",
                                     "f", "e", "d", "c", "b", "a"}
      [] cls = "AsciiSegment" -> {"ascii_value"}

\* The callable attributes dir() lists for an object of each class: the
\* methods of Segment and of the subclass.
Methods(cls) ==
    {"copy_with_dp_on"} \cup
    CASE cls = "BcdSegments" -> {"get_dpx4x3x2x1_encoding", "get_x4x3x2x1_encoding"}
      [] cls = "SevenSegments" -> {"get_gfedcba_encoding", "get_dpgfedcba_encoding",
                                   "get_dpgfeabcd_encoding"}
      [] cls = "EightSegments" -> {"get_hgfedcba_encoding"}
      [] cls = "FourteenSegments" -> {"get_pinmame_encoding", "get_apc_encoding",
                                      "get_vpe_encoding"}
      [] cls = "SixteenSegments" -> {}
      [] cls = "AsciiSegment" -> {"get_ascii_encoding", "get_ascii_with_dp_encoding"}

\* Names that start with "__" among those dir() lists.
DunderNames == {"__class__", "__init__", "__repr__", "__eq__", "__slots__"}

\* dir(obj): the data attributes, the methods and the special names.
Dir(obj) == DOMAIN obj \cup Methods(obj["__class__"]) \cup DunderNames

\* {attr: getattr(self, attr) for attr in dir(self)
\*        if not attr.startswith("__") and not callable(getattr(self, attr))}
PublicAttrs(obj) ==
    [attr \in {nm \in Dir(obj) : nm \notin DunderNames /\ nm \notin Methods(obj["__class__"])}
        |-> obj[attr]]

\* self.__class__(**attr): the constructor of the class, by keyword.
Construct(cls, attr) ==
    CASE cls = "BcdSegments" ->
            BcdSegments(attr.dp, attr.x3, attr.x2, attr.x1, attr.x0, attr.char)
      [] cls = "SevenSegments" ->
            SevenSegments(attr.dp, attr.g, attr.f, attr.e, attr.d, attr.c, attr.b,
                          attr.a, attr.char)
      [] cls = "EightSegments" ->
            EightSegments(attr.dp, attr.h, attr.g, attr.f, attr.e, attr.d, attr.c,
                          attr.b, attr.a, attr.char)
      [] cls = "FourteenSegments" ->
            FourteenSegments(attr.dp, attr.l, attr.m, attr.n, attr.k, attr.j, attr.h,
                             attr.g2, attr.g1, attr.f, attr.e, attr.d, attr.c, attr.b,
                             attr.a, attr.char)
      [] cls = "SixteenSegments" ->
            SixteenSegments(attr.dp, attr.u, attr.t, attr.s, attr.r, attr.p, attr.m,
                            attr.n, attr.k, attr.h, attr.g, attr.f, attr.e, attr.d,
                            attr.c, attr.b, attr.a, attr.char)
      [] cls = "AsciiSegment" ->
            AsciiSegment(attr.dp, attr.ascii_value, attr.char)

----------------------------------------------------------------------------
(* The tables.                                                             *)

\* BCD_SEGMENTS, lines 161-191: one entry per key of the dict literal, source order.
BCD_SEGMENTS ==
    (None :> BcdSegments(0, 0, 0, 0, 0, 63))
    @@ (33 :> BcdSegments(1, 0, 0, 0, 1, 33))
    @@ (48 :> BcdSegments(0, 0, 0, 0, 0, 48))
    @@ (49 :> BcdSegments(0, 0, 0, 0, 1, 49))
    @@ (50 :> BcdSegments(0, 0, 0, 1, 0, 50))
    @@ (51 :> BcdSegments(0, 0, 0, 1, 1, 51))
    @@ (52 :> BcdSegments(0, 0, 1, 0, 0, 52))
    @@ (53 :> BcdSegments(0, 0, 1, 0, 1, 53))
    @@ (54 :> BcdSegments(0, 0, 1, 1, 0, 54))
    @@ (55 :> BcdSegments(0, 0, 1, 1, 1, 55))
    @@ (56 :> BcdSegments(0, 1, 0, 0, 0, 56))
    @@ (57 :> BcdSegments(0, 1, 0, 0, 1, 57))
    @@ (63 :> BcdSegments(1, 0, 0, 1, 0, 63))
    @@ (65 :> BcdSegments(0, 1, 0, 1, 0, 65))
    @@ (66 :> BcdSegments(0, 1, 0, 1, 1, 66))
    @@ (67 :> BcdSegments(0, 1, 1, 0, 0, 67))
    @@ (68 :> BcdSegments(0, 1, 1, 0, 1, 68))
    @@ (69 :> BcdSegments(0, 1, 1, 1, 0, 69))
    @@ (70 :> BcdSegments(0, 1, 1, 1, 1, 70))
    @@ (97 :> BcdSegments(0, 1, 0, 1, 0, 97))
    @@ (98 :> BcdSegments(0, 1, 0, 1, 1, 98))
    @@ (99 :> BcdSegments(0, 1, 1, 0, 0, 99))
    @@ (100 :> BcdSegments(0, 1, 1, 0, 1, 100))
    @@ (101 :> BcdSegments(0, 1, 1, 1, 0, 101))
    @@ (102 :> BcdSegments(0, 1, 1, 1, 1, 102))

\* SEVEN_SEGMENTS, lines 231-328: one entry per key of the dict literal, source order.
SEVEN_SEGMENTS ==
    (None :> SevenSegments(0, 0, 0, 0, 0, 0, 0, 0, 63))
    @@ (32 :> SevenSegments(0, 0, 0, 0, 0, 0, 0, 0, 32))
    @@ (33 :> SevenSegments(1, 0, 0, 0, 0, 1, 1, 0, 33))
    @@ (34 :> SevenSegments(0, 0, 1, 0, 0, 0, 1, 0, 34))
    @@ (35 :> SevenSegments(0, 1, 1, 1, 1, 1, 1, 0, 35))
    @@ (36 :> SevenSegments(0, 1, 1, 0, 1, 1, 0, 1, 36))
    @@ (37 :> SevenSegments(1, 1, 0, 1, 0, 0, 1, 0, 37))
    @@ (38 :> SevenSegments(0, 1, 0, 0, 0, 1, 1, 0, 38))
    @@ (39 :> SevenSegments(0, 0, 1, 0, 0, 0, 0, 0, 39))
    @@ (40 :> SevenSegments(0, 0, 1, 0, 1, 0, 0, 1, 40))
    @@ (41 :> SevenSegments(0, 0, 0, 0, 1, 0, 1, 1, 41))
    @@ (42 :> SevenSegments(0, 0, 1, 0, 0, 0, 0, 1, 42))
    @@ (43 :> SevenSegments(0, 1, 1, 1, 0, 0, 0, 0, 43))
    @@ (44 :> SevenSegments(0, 0, 0, 1, 0, 0, 0, 0, 44))
    @@ (45 :> SevenSegments(0, 1, 0, 0, 0, 0, 0, 0, 45))
    @@ (46 :> SevenSegments(1, 0, 0, 0, 0, 0, 0, 0, 46))
    @@ (47 :> SevenSegments(0, 1, 0, 1, 0, 0, 1, 0, 47))
    @@ (48 :> SevenSegments(0, 0, 1, 1, 1, 1, 1, 1, 48))
    @@ (49 :> SevenSegments(0, 0, 0, 0, 0, 1, 1, 0, 49))
    @@ (50 :> SevenSegments(0, 1, 0, 1, 1, 0, 1, 1, 50))
    @@ (51 :> SevenSegments(0, 1, 0, 0, 1, 1, 1, 1, 51))
    @@ (52 :> SevenSegments(0, 1, 1, 0, 0, 1, 1, 0, 52))
    @@ (53 :> SevenSegments(0, 1, 1, 0, 1, 1, 0, 1, 53))
    @@ (54 :> SevenSegments(0, 1, 1, 1, 1, 1, 0, 1, 54))
    @@ (55 :> SevenSegments(0, 0, 0, 0, 0, 1, 1, 1, 55))
    @@ (56 :> SevenSegments(0, 1, 1, 1, 1, 1, 1, 1, 56))
    @@ (57 :> SevenSegments(0, 1, 1, 0, 1, 1, 1, 1, 57))
    @@ (58 :> SevenSegments(0, 0, 0, 0, 1, 0, 0, 1, 58))
    @@ (59 :> SevenSegments(0, 0, 0, 0, 1, 1, 0, 1, 59))
    @@ (60 :> SevenSegments(0, 1, 1, 0, 0, 0, 0, 1, 60))
    @@ (61 :> SevenSegments(0, 1, 0, 0, 1, 0, 0, 0, 61))
    @@ (62 :> SevenSegments(0, 1, 0, 0, 0, 0, 1, 1, 62))
    @@ (63 :> SevenSegments(1, 1, 0, 1, 0, 0, 1, 1, 63))
    @@ (64 :> SevenSegments(0, 1, 0, 1, 1, 1, 1, 1, 64))
    @@ (65 :> SevenSegments(0, 1, 1, 1, 0, 1, 1, 1, 65))
    @@ (66 :> SevenSegments(0, 1, 1, 1, 1, 1, 0, 0, 66))
    @@ (67 :> SevenSegments(0, 0, 1, 1, 1, 0, 0, 1, 67))
    @@ (68 :> SevenSegments(0, 1, 0, 1, 1, 1, 1, 0, 68))
    @@ (69 :> SevenSegments(0, 1, 1, 1, 1, 0, 0, 1, 69))
    @@ (70 :> SevenSegments(0, 1, 1, 1, 0, 0, 0, 1, 70))
    @@ (71 :> SevenSegments(0, 0, 1, 1, 1, 1, 0, 1, 71))
    @@ (72 :> SevenSegments(0, 1, 1, 1, 0, 1, 1, 0, 72))
    @@ (73 :> SevenSegments(0, 0, 1, 1, 0, 0, 0, 0, 73))
    @@ (74 :> SevenSegments(0, 0, 0, 1, 1, 1, 1, 0, 74))
    @@ (75 :> SevenSegments(0, 1, 1, 1, 0, 1, 0, 1, 75))
    @@ (76 :> SevenSegments(0, 0, 1, 1, 1, 0, 0, 0, 76))
    @@ (77 :> SevenSegments(0, 0, 0, 1, 0, 1, 0, 1, 77))
    @@ (78 :> SevenSegments(0, 0, 1, 1, 0, 1, 1, 1, 78))
    @@ (79 :> SevenSegments(0, 0, 1, 1, 1, 1, 1, 1, 79))
    @@ (80 :> SevenSegments(0, 1, 1, 1, 0, 0, 1, 1, 80))
    @@ (81 :> SevenSegments(0, 1, 1, 0, 1, 0, 1, 1, 81))
    @@ (82 :> SevenSegments(0, 0, 1, 1, 0, 0, 1, 1, 82))
    @@ (83 :> SevenSegments(0, 1, 1, 0, 1, 1, 0, 1, 83))
    @@ (84 :> SevenSegments(0, 1, 1, 1, 1, 0, 0, 0, 84))
    @@ (85 :> SevenSegments(0, 0, 1, 1, 1, 1, 1, 0, 85))
    @@ (86 :> SevenSegments(0, 0, 1, 1, 1, 1, 1, 0, 86))
    @@ (87 :> SevenSegments(0, 0, 1, 0, 1, 0, 1, 0, 87))
    @@ (88 :> SevenSegments(0, 1, 1, 1, 0, 1, 1, 0, 88))
    @@ (89 :> SevenSegments(0, 1, 1, 0, 1, 1, 1, 0, 89))
    @@ (90 :> SevenSegments(0, 1, 0, 1, 1, 0, 1, 1, 90))
    @@ (91 :> SevenSegments(0, 0, 1, 1, 1, 0, 0, 1, 91))
    @@ (92 :> SevenSegments(0, 1, 1, 0, 0, 1, 0, 0, 34))
    @@ (93 :> SevenSegments(0, 0, 0, 0, 1, 1, 1, 1, 93))
    @@ (94 :> SevenSegments(0, 0, 1, 0, 0, 0, 1, 1, 94))
    @@ (95 :> SevenSegments(0, 0, 0, 0, 1, 0, 0, 0, 95))
    @@ (96 :> SevenSegments(0, 0, 0, 0, 0, 0, 1, 0, 96))
    @@ (97 :> SevenSegments(0, 1, 0, 1, 1, 1, 1, 1, 97))
    @@ (98 :> SevenSegments(0, 1, 1, 1, 1, 1, 0, 0, 98))
    @@ (99 :> SevenSegments(0, 1, 0, 1, 1, 0, 0, 0, 99))
    @@ (100 :> SevenSegments(0, 1, 0, 1, 1, 1, 1, 0, 100))
    @@ (101 :> SevenSegments(0, 1, 1, 1, 1, 0, 1, 1, 101))
    @@ (102 :> SevenSegments(0, 1, 1, 1, 0, 0, 0, 1, 102))
    @@ (103 :> SevenSegments(0, 1, 1, 0, 1, 1, 1, 1, 103))
    @@ (104 :> SevenSegments(0, 1, 1, 1, 0, 1, 0, 0, 104))
    @@ (105 :> SevenSegments(0, 0, 0, 1, 0, 0, 0, 0, 105))
    @@ (106 :> SevenSegments(0, 0, 0, 0, 1, 1, 0, 0, 106))
    @@ (107 :> SevenSegments(0, 1, 1, 1, 0, 1, 0, 1, 107))
    @@ (108 :> SevenSegments(0, 0, 1, 1, 0, 0, 0, 0, 108))
    @@ (109 :> SevenSegments(0, 0, 0, 1, 0, 1, 0, 0, 109))
    @@ (110 :> SevenSegments(0, 1, 0, 1, 0, 1, 0, 0, 110))
    @@ (111 :> SevenSegments(0, 1, 0, 1, 1, 1, 0, 0, 111))
    @@ (112 :> SevenSegments(0, 1, 1, 1, 0, 0, 1, 1, 112))
    @@ (113 :> SevenSegments(0, 1, 1, 0, 0, 1, 1, 1, 113))
    @@ (114 :> SevenSegments(0, 1, 0, 1, 0, 0, 0, 0, 114))
    @@ (115 :> SevenSegments(0, 1, 1, 0, 1, 1, 0, 1, 115))
    @@ (116 :> SevenSegments(0, 1, 1, 1, 1, 0, 0, 0, 116))
    @@ (117 :> SevenSegments(0, 0, 0, 1, 1, 1, 0, 0, 117))
    @@ (118 :> SevenSegments(0, 0, 0, 1, 1, 1, 0, 0, 118))
    @@ (119 :> SevenSegments(0, 0, 0, 1, 0, 1, 0, 0, 119))
    @@ (120 :> SevenSegments(0, 1, 1, 1, 0, 1, 1, 0, 120))
    @@ (121 :> SevenSegments(0, 1, 1, 0, 1, 1, 1, 0, 121))
    @@ (122 :> SevenSegments(0, 1, 0, 1, 1, 0, 1, 1, 122))
    @@ (123 :> SevenSegments(0, 1, 0, 0, 0, 1, 1, 0, 123))
    @@ (124 :> SevenSegments(0, 0, 1, 1, 0, 0, 0, 0, 124))
    @@ (125 :> SevenSegments(0, 1, 1, 1, 0, 0, 0, 0, 125))
    @@ (126 :> SevenSegments(0, 0, 0, 0, 0, 0, 0, 1, 126))

\* EIGHT_SEGMENTS, lines 359-456: one entry per key of the dict literal, source order.
EIGHT_SEGMENTS ==
    (None :> EightSegments(0, 0, 0, 0, 0, 0, 0, 0, 0, 63))
    @@ (32 :> EightSegments(0, 0, 0, 0, 0, 0, 0, 0, 0, 32))
    @@ (33 :> EightSegments(1, 0, 0, 0, 0, 0, 1, 1, 0, 33))
    @@ (34 :> EightSegments(0, 0, 0, 1, 0, 0, 0, 1, 0, 34))
    @@ (35 :> EightSegments(0, 0, 1, 1, 1, 1, 1, 1, 0, 35))
    @@ (36 :> EightSegments(0, 1, 1, 1, 0, 1, 1, 0, 1, 36))
    @@ (37 :> EightSegments(1, 0, 1, 0, 1, 0, 0, 1, 0, 37))
    @@ (38 :> EightSegments(0, 0, 1, 0, 0, 0, 1, 1, 0, 38))
    @@ (39 :> EightSegments(0, 0, 0, 1, 0, 0, 0, 0, 0, 39))
    @@ (40 :> EightSegments(0, 0, 0, 1, 0, 1, 0, 0, 1, 40))
    @@ (41 :> EightSegments(0, 0, 0, 0, 0, 1, 0, 1, 1, 41))
    @@ (42 :> EightSegments(0, 0, 0, 1, 0, 0, 0, 0, 1, 42))
    @@ (43 :> EightSegments(0, 1, 1, 0, 0, 0, 0, 0, 0, 43))
    @@ (44 :> EightSegments(0, 0, 0, 0, 1, 0, 0, 0, 0, 44))
    @@ (45 :> EightSegments(0, 0, 1, 0, 0, 0, 0, 0, 0, 45))
    @@ (46 :> EightSegments(1, 0, 0, 0, 0, 0, 0, 0, 0, 46))
    @@ (47 :> EightSegments(0, 0, 1, 0, 1, 0, 0, 1, 0, 47))
    @@ (48 :> EightSegments(0, 0, 0, 1, 1, 1, 1, 1, 1, 48))
    @@ (49 :> EightSegments(0, 1, 0, 0, 0, 0, 0, 0, 0, 49))
    @@ (50 :> EightSegments(0, 0, 1, 0, 1, 1, 0, 1, 1, 50))
    @@ (51 :> EightSegments(0, 0, 1, 0, 0, 1, 1, 1, 1, 51))
    @@ (52 :> EightSegments(0, 0, 1, 1, 0, 0, 1, 1, 0, 52))
    @@ (53 :> EightSegments(0, 0, 1, 1, 0, 1, 1, 0, 1, 53))
    @@ (54 :> EightSegments(0, 0, 1, 1, 1, 1, 1, 0, 1, 54))
    @@ (55 :> EightSegments(0, 0, 0, 0, 0, 0, 1, 1, 1, 55))
    @@ (56 :> EightSegments(0, 0, 1, 1, 1, 1, 1, 1, 1, 56))
    @@ (57 :> EightSegments(0, 0, 1, 1, 0, 1, 1, 1, 1, 57))
    @@ (58 :> EightSegments(0, 0, 0, 0, 0, 1, 0, 0, 1, 58))
    @@ (59 :> EightSegments(0, 0, 0, 0, 0, 1, 1, 0, 1, 59))
    @@ (60 :> EightSegments(0, 0, 1, 1, 0, 0, 0, 0, 1, 60))
    @@ (61 :> EightSegments(0, 0, 1, 0, 0, 1, 0, 0, 0, 61))
    @@ (62 :> EightSegments(0, 0, 1, 0, 0, 0, 0, 1, 1, 62))
    @@ (63 :> EightSegments(1, 0, 1, 0, 1, 0, 0, 1, 1, 63))
    @@ (64 :> EightSegments(0, 0, 1, 0, 1, 1, 1, 1, 1, 64))
    @@ (65 :> EightSegments(0, 0, 1, 1, 1, 0, 1, 1, 1, 65))
    @@ (66 :> EightSegments(0, 1, 1, 0, 0, 1, 1, 0, 0, 66))
    @@ (67 :> EightSegments(0, 0, 0, 1, 1, 1, 0, 0, 1, 67))
    @@ (68 :> EightSegments(0, 1, 0, 0, 0, 1, 1, 1, 1, 68))
    @@ (69 :> EightSegments(0, 0, 1, 1, 1, 1, 0, 0, 1, 69))
    @@ (70 :> EightSegments(0, 0, 1, 1, 1, 0, 0, 0, 1, 70))
    @@ (71 :> EightSegments(0, 0, 0, 1, 1, 1, 1, 0, 1, 71))
    @@ (72 :> EightSegments(0, 0, 1, 1, 1, 0, 1, 1, 0, 72))
    @@ (73 :> EightSegments(0, 1, 0, 0, 0, 1, 0, 0, 1, 73))
    @@ (74 :> EightSegments(0, 0, 0, 0, 1, 1, 1, 1, 0, 74))
    @@ (75 :> EightSegments(0, 1, 1, 1, 1, 0, 0, 0, 0, 75))
    @@ (76 :> EightSegments(0, 0, 0, 1, 1, 1, 0, 0, 0, 76))
    @@ (77 :> EightSegments(0, 1, 0, 1, 1, 0, 1, 1, 1, 77))
    @@ (78 :> EightSegments(0, 0, 0, 1, 1, 0, 1, 1, 1, 78))
    @@ (79 :> EightSegments(0, 0, 0, 1, 1, 1, 1, 1, 1, 79))
    @@ (80 :> EightSegments(0, 0, 1, 1, 1, 0, 0, 1, 1, 80))
    @@ (81 :> EightSegments(0, 0, 1, 1, 0, 1, 0, 1, 1, 81))
    @@ (82 :> EightSegments(0, 0, 0, 1, 1, 0, 0, 1, 1, 82))
    @@ (83 :> EightSegments(0, 0, 1, 1, 0, 1, 1, 0, 1, 83))
    @@ (84 :> EightSegments(0, 1, 0, 0, 0, 0, 0, 0, 1, 84))
    @@ (85 :> EightSegments(0, 0, 0, 1, 1, 1, 1, 1, 0, 85))
    @@ (86 :> EightSegments(0, 0, 0, 1, 1, 1, 1, 1, 0, 86))
    @@ (87 :> EightSegments(0, 1, 0, 1, 1, 1, 1, 1, 0, 87))
    @@ (88 :> EightSegments(0, 1, 1, 1, 0, 0, 1, 0, 0, 88))
    @@ (89 :> EightSegments(0, 0, 1, 1, 0, 1, 1, 1, 0, 89))
    @@ (90 :> EightSegments(0, 0, 1, 0, 1, 1, 0, 1, 1, 90))
    @@ (91 :> EightSegments(0, 0, 0, 1, 1, 1, 0, 0, 1, 91))
    @@ (92 :> EightSegments(0, 0, 1, 1, 0, 0, 1, 0, 0, 34))
    @@ (93 :> EightSegments(0, 0, 0, 0, 0, 1, 1, 1, 1, 93))
    @@ (94 :> EightSegments(0, 0, 0, 1, 0, 0, 0, 1, 1, 94))
    @@ (95 :> EightSegments(0, 0, 0, 0, 0, 1, 0, 0, 0, 95))
    @@ (96 :> EightSegments(0, 0, 0, 0, 0, 0, 0, 1, 0, 96))
    @@ (97 :> EightSegments(0, 0, 1, 0, 1, 1, 1, 1, 1, 97))
    @@ (98 :> EightSegments(0, 0, 1, 1, 1, 1, 1, 0, 0, 98))
    @@ (99 :> EightSegments(0, 0, 1, 0, 1, 1, 0, 0, 0, 99))
    @@ (100 :> EightSegments(0, 0, 1, 0, 1, 1, 1, 1, 0, 100))
    @@ (101 :> EightSegments(0, 0, 1, 1, 1, 1, 0, 1, 1, 101))
    @@ (102 :> EightSegments(0, 0, 1, 1, 1, 0, 0, 0, 1, 102))
    @@ (103 :> EightSegments(0, 0, 1, 1, 0, 1, 1, 1, 1, 103))
    @@ (104 :> EightSegments(0, 0, 1, 1, 1, 0, 1, 0, 0, 104))
    @@ (105 :> EightSegments(0, 0, 0, 0, 1, 0, 0, 0, 0, 105))
    @@ (106 :> EightSegments(0, 0, 0, 0, 0, 1, 1, 0, 0, 106))
    @@ (107 :> EightSegments(0, 0, 1, 1, 1, 0, 1, 0, 1, 107))
    @@ (108 :> EightSegments(0, 0, 0, 1, 1, 0, 0, 0, 0, 108))
    @@ (109 :> EightSegments(0, 0, 0, 0, 1, 0, 1, 0, 0, 109))
    @@ (110 :> EightSegments(0, 0, 1, 0, 1, 0, 1, 0, 0, 110))
    @@ (111 :> EightSegments(0, 0, 1, 0, 1, 1, 1, 0, 0, 111))
    @@ (112 :> EightSegments(0, 0, 1, 1, 1, 0, 0, 1, 1, 112))
    @@ (113 :> EightSegments(0, 0, 1, 1, 0, 0, 1, 1, 1, 113))
    @@ (114 :> EightSegments(0, 0, 1, 0, 1, 0, 0, 0, 0, 114))
    @@ (115 :> EightSegments(0, 0, 1, 1, 0, 1, 1, 0, 1, 115))
    @@ (116 :> EightSegments(0, 0, 1, 1, 1, 1, 0, 0, 0, 116))
    @@ (117 :> EightSegments(0, 0, 0, 0, 1, 1, 1, 0, 0, 117))
    @@ (118 :> EightSegments(0, 0, 0, 0, 1, 1, 1, 0, 0, 118))
    @@ (119 :> EightSegments(0, 0, 0, 0, 1, 0, 1, 0, 0, 119))
    @@ (120 :> EightSegments(0, 1, 1, 1, 0, 0, 1, 0, 0, 120))
    @@ (121 :> EightSegments(0, 0, 1, 1, 0, 1, 1, 1, 0, 121))
    @@ (122 :> EightSegments(0, 0, 1, 0, 1, 1, 0, 1, 1, 122))
    @@ (123 :> EightSegments(0, 0, 1, 0, 0, 0, 1, 1, 0, 123))
    @@ (124 :> EightSegments(0, 1, 0, 0, 0, 0, 0, 0, 0, 124))
    @@ (125 :> EightSegments(0, 0, 1, 1, 1, 0, 0, 0, 0, 125))
    @@ (126 :> EightSegments(0, 0, 0, 0, 0, 0, 0, 0, 1, 126))

\* FOURTEEN_SEGMENTS, lines 514-707: one entry per key of the dict literal, source order.
FOURTEEN_SEGMENTS ==
    (None :> FourteenSegments(0, 0, 0, 0, 0, 0, 0, 0, 0, 0, 0, 0, 0, 0, 0, 63))
    @@ (32 :> FourteenSegments(0, 0, 0, 0, 0, 0, 0, 0, 0, 0, 0, 0, 0, 0, 0, 32))
    @@ (33 :> FourteenSegments(1, 0, 0, 0, 0, 0, 0, 0, 0, 0, 0, 0, 1, 1, 0, 33))
    @@ (34 :> FourteenSegments(0, 0, 0, 0, 0, 1, 0, 0, 0, 0, 0, 0, 0, 1, 0, 34))
    @@ (35 :> FourteenSegments(0, 0, 1, 0, 0, 1, 0, 1, 1, 0, 0, 1, 1, 1, 0, 35))
    @@ (36 :> FourteenSegments(0, 0, 1, 0, 0, 1, 0, 1, 1, 1, 0, 1, 1, 0, 1, 36))
    @@ (37 :> FourteenSegments(0, 1, 0, 1, 1, 0, 1, 1, 1, 1, 0, 0, 1, 0, 0, 37))
    @@ (38 :> FourteenSegments(0, 1, 0, 0, 0, 1, 1, 0, 1, 0, 1, 1, 0, 0, 1, 38))
    @@ (39 :> FourteenSegments(0, 0, 0, 0, 0, 1, 0, 0, 0, 0, 0, 0, 0, 0, 0, 39))
    @@ (40 :> FourteenSegments(0, 1, 0, 0, 1, 0, 0, 0, 0, 0, 0, 0, 0, 0, 0, 40))
    @@ (41 :> FourteenSegments(0, 0, 0, 1, 0, 0, 1, 0, 0, 0, 0, 0, 0, 0, 0, 41))
    @@ (42 :> FourteenSegments(0, 1, 1, 1, 1, 1, 1, 1, 1, 0, 0, 0, 0, 0, 0, 42))
    @@ (43 :> FourteenSegments(0, 0, 1, 0, 0, 1, 0, 1, 1, 0, 0, 0, 0, 0, 0, 43))
    @@ (44 :> FourteenSegments(0, 0, 0, 1, 0, 0, 0, 0, 0, 0, 0, 0, 0, 0, 0, 44))
    @@ (45 :> FourteenSegments(0, 0, 0, 0, 0, 0, 0, 1, 1, 0, 0, 0, 0, 0, 0, 45))
    @@ (46 :> FourteenSegments(1, 0, 0, 0, 0, 0, 0, 0, 0, 0, 0, 0, 0, 0, 0, 46))
    @@ (47 :> FourteenSegments(0, 0, 0, 1, 1, 0, 0, 0, 0, 0, 0, 0, 0, 0, 0, 47))
    @@ (48 :> FourteenSegments(0, 0, 0, 1, 1, 0, 0, 0, 0, 1, 1, 1, 1, 1, 1, 48))
    @@ (49 :> FourteenSegments(0, 0, 0, 0, 1, 0, 0, 0, 0, 0, 0, 0, 1, 1, 0, 49))
    @@ (50 :> FourteenSegments(0, 0, 0, 0, 0, 0, 0, 1, 1, 0, 1, 1, 0, 1, 1, 50))
    @@ (51 :> FourteenSegments(0, 0, 0, 0, 0, 0, 0, 1, 0, 0, 0, 1, 1, 1, 1, 51))
    @@ (52 :> FourteenSegments(0, 0, 0, 0, 0, 0, 0, 1, 1, 1, 0, 0, 1, 1, 0, 52))
    @@ (53 :> FourteenSegments(0, 1, 0, 0, 0, 0, 0, 0, 1, 1, 0, 1, 0, 0, 1, 53))
    @@ (54 :> FourteenSegments(0, 0, 0, 0, 0, 0, 0, 1, 1, 1, 1, 1, 1, 0, 1, 54))
    @@ (55 :> FourteenSegments(0, 0, 0, 0, 0, 0, 0, 0, 0, 0, 0, 0, 1, 1, 1, 55))
    @@ (56 :> FourteenSegments(0, 0, 0, 0, 0, 0, 0, 1, 1, 1, 1, 1, 1, 1, 1, 56))
    @@ (57 :> FourteenSegments(0, 0, 0, 0, 0, 0, 0, 1, 1, 1, 0, 1, 1, 1, 1, 57))
    @@ (58 :> FourteenSegments(0, 0, 1, 0, 0, 1, 0, 0, 0, 0, 0, 0, 0, 0, 0, 58))
    @@ (59 :> FourteenSegments(0, 0, 0, 1, 0, 1, 0, 0, 0, 0, 0, 0, 0, 0, 0, 59))
    @@ (60 :> FourteenSegments(0, 1, 0, 0, 1, 0, 0, 0, 1, 0, 0, 0, 0, 0, 0, 60))
    @@ (61 :> FourteenSegments(0, 0, 0, 0, 0, 0, 0, 1, 1, 0, 0, 1, 0, 0, 0, 61))
    @@ (62 :> FourteenSegments(0, 0, 0, 1, 0, 0, 1, 1, 0, 0, 0, 0, 0, 0, 0, 62))
    @@ (63 :> FourteenSegments(1, 0, 1, 0, 0, 0, 0, 1, 0, 0, 0, 0, 0, 1, 1, 63))
    @@ (64 :> FourteenSegments(0, 0, 1, 0, 0, 0, 0, 0, 1, 0, 1, 1, 1, 1, 1, 64))
    @@ (65 :> FourteenSegments(0, 0, 0, 0, 0, 0, 0, 1, 1, 1, 1, 0, 1, 1, 1, 65))
    @@ (66 :> FourteenSegments(0, 0, 1, 0, 0, 1, 0, 1, 0, 0, 0, 1, 1, 1, 1, 66))
    @@ (67 :> FourteenSegments(0, 0, 0, 0, 0, 0, 0, 0, 0, 1, 1, 1, 0, 0, 1, 67))
    @@ (68 :> FourteenSegments(0, 0, 1, 0, 0, 1, 0, 0, 0, 0, 0, 1, 1, 1, 1, 68))
    @@ (69 :> FourteenSegments(0, 0, 0, 0, 0, 0, 0, 0, 1, 1, 1, 1, 0, 0, 1, 69))
    @@ (70 :> FourteenSegments(0, 0, 0, 0, 0, 0, 0, 0, 1, 1, 1, 0, 0, 0, 1, 70))
    @@ (71 :> FourteenSegments(0, 0, 0, 0, 0, 0, 0, 1, 0, 1, 1, 1, 1, 0, 1, 71))
    @@ (72 :> FourteenSegments(0, 0, 0, 0, 0, 0, 0, 1, 1, 1, 1, 0, 1, 1, 0, 72))
    @@ (73 :> FourteenSegments(0, 0, 1, 0, 0, 1, 0, 0, 0, 0, 0, 1, 0, 0, 1, 73))
    @@ (74 :> FourteenSegments(0, 0, 0, 0, 0, 0, 0, 0, 0, 0, 1, 1, 1, 1, 0, 74))
    @@ (75 :> FourteenSegments(0, 1, 0, 0, 1, 0, 0, 0, 1, 1, 1, 0, 0, 0, 0, 75))
    @@ (76 :> FourteenSegments(0, 0, 0, 0, 0, 0, 0, 0, 0, 1, 1, 1, 0, 0, 0, 76))
    @@ (77 :> FourteenSegments(0, 0, 0, 0, 1, 0, 1, 0, 0, 1, 1, 0, 1, 1, 0, 77))
    @@ (78 :> FourteenSegments(0, 1, 0, 0, 0, 0, 1, 0, 0, 1, 1, 0, 1, 1, 0, 78))
    @@ (79 :> FourteenSegments(0, 0, 0, 0, 0, 0, 0, 0, 0, 1, 1, 1, 1, 1, 1, 79))
    @@ (80 :> FourteenSegments(0, 0, 0, 0, 0, 0, 0, 1, 1, 1, 1, 0, 0, 1, 1, 80))
    @@ (81 :> FourteenSegments(0, 1, 0, 0, 0, 0, 0, 0, 0, 1, 1, 1, 1, 1, 1, 81))
    @@ (82 :> FourteenSegments(0, 1, 0, 0, 0, 0, 0, 1, 1, 1, 1, 0, 0, 1, 1, 82))
    @@ (83 :> FourteenSegments(0, 0, 0, 0, 0, 0, 0, 1, 1, 1, 0, 1, 1, 0, 1, 83))
    @@ (84 :> FourteenSegments(0, 0, 1, 0, 0, 1, 0, 0, 0, 0, 0, 0, 0, 0, 1, 84))
    @@ (85 :> FourteenSegments(0, 0, 0, 0, 0, 0, 0, 0, 0, 1, 1, 1, 1, 1, 0, 85))
    @@ (86 :> FourteenSegments(0, 0, 0, 1, 1, 0, 0, 0, 0, 1, 1, 0, 0, 0, 0, 86))
    @@ (87 :> FourteenSegments(0, 1, 0, 1, 0, 0, 0, 0, 0, 1, 1, 0, 1, 1, 0, 87))
    @@ (88 :> FourteenSegments(0, 1, 0, 1, 1, 0, 1, 0, 0, 0, 0, 0, 0, 0, 0, 88))
    @@ (89 :> FourteenSegments(0, 0, 0, 0, 0, 0, 0, 1, 1, 1, 0, 1, 1, 1, 0, 89))
    @@ (90 :> FourteenSegments(0, 0, 0, 1, 1, 0, 0, 0, 0, 0, 0, 1, 0, 0, 1, 90))
    @@ (91 :> FourteenSegments(0, 0, 0, 0, 0, 0, 0, 0, 0, 1, 1, 1, 0, 0, 1, 91))
    @@ (92 :> FourteenSegments(0, 1, 0, 0, 0, 0, 1, 0, 0, 0, 0, 0, 0, 0, 0, 34))
    @@ (93 :> FourteenSegments(0, 0, 0, 0, 0, 0, 0, 0, 0, 0, 0, 1, 1, 1, 1, 93))
    @@ (94 :> FourteenSegments(0, 1, 0, 1, 0, 0, 0, 0, 0, 0, 0, 0, 0, 0, 0, 94))
    @@ (95 :> FourteenSegments(0, 0, 0, 0, 0, 0, 0, 0, 0, 0, 0, 1, 0, 0, 0, 95))
    @@ (96 :> FourteenSegments(0, 0, 0, 0, 0, 0, 1, 0, 0, 0, 0, 0, 0, 0, 0, 96))
    @@ (97 :> FourteenSegments(0, 0, 1, 0, 0, 0, 0, 0, 1, 0, 1, 1, 0, 0, 0, 97))
    @@ (98 :> FourteenSegments(0, 1, 0, 0, 0, 0, 0, 0, 1, 1, 1, 1, 0, 0, 0, 98))
    @@ (99 :> FourteenSegments(0, 0, 0, 0, 0, 0, 0, 1, 1, 0, 1, 1, 0, 0, 0, 99))
    @@ (100 :> FourteenSegments(0, 0, 0, 1, 0, 0, 0, 1, 0, 0, 0, 1, 1, 1, 0, 100))
    @@ (101 :> FourteenSegments(0, 0, 0, 1, 0, 0, 0, 0, 1, 0, 1, 1, 0, 0, 0, 101))
    @@ (102 :> FourteenSegments(0, 0, 1, 0, 1, 0, 0, 1, 1, 0, 0, 0, 0, 0, 0, 102))
    @@ (103 :> FourteenSegments(0, 0, 0, 0, 0, 0, 1, 1, 0, 0, 0, 1, 1, 1, 1, 103))
    @@ (104 :> FourteenSegments(0, 0, 0, 0, 0, 0, 0, 1, 1, 1, 1, 0, 1, 0, 0, 104))
    @@ (105 :> FourteenSegments(0, 0, 1, 0, 0, 0, 0, 0, 0, 0, 0, 0, 0, 0, 0, 105))
    @@ (106 :> FourteenSegments(0, 0, 0, 1, 0, 1, 0, 0, 0, 0, 1, 0, 0, 0, 0, 106))
    @@ (107 :> FourteenSegments(0, 1, 1, 0, 1, 1, 0, 0, 0, 0, 0, 0, 0, 0, 0, 107))
    @@ (108 :> FourteenSegments(0, 0, 1, 0, 0, 1, 0, 0, 0, 0, 0, 0, 0, 0, 0, 108))
    @@ (109 :> FourteenSegments(0, 0, 1, 0, 0, 0, 0, 1, 1, 0, 1, 0, 1, 0, 0, 109))
    @@ (110 :> FourteenSegments(0, 0, 0, 0, 0, 0, 0, 1, 1, 0, 1, 0, 1, 0, 0, 110))
    @@ (111 :> FourteenSegments(0, 0, 0, 0, 0, 0, 0, 1, 1, 0, 1, 1, 1, 0, 0, 111))
    @@ (112 :> FourteenSegments(0, 0, 0, 0, 1, 0, 0, 0, 1, 1, 1, 0, 0, 0, 1, 112))
    @@ (113 :> FourteenSegments(0, 0, 0, 0, 0, 0, 1, 1, 0, 0, 0, 0, 1, 1, 1, 113))
    @@ (114 :> FourteenSegments(0, 0, 0, 0, 0, 0, 0, 1, 1, 0, 1, 0, 0, 0, 0, 114))
    @@ (115 :> FourteenSegments(0, 1, 0, 0, 0, 0, 0, 1, 0, 0, 0, 1, 0, 0, 0, 115))
    @@ (116 :> FourteenSegments(0, 0, 0, 0, 0, 0, 0, 0, 1, 1, 1, 1, 0, 0, 0, 116))
    @@ (117 :> FourteenSegments(0, 0, 0, 0, 0, 0, 0, 0, 0, 0, 1, 1, 1, 0, 0, 117))
    @@ (118 :> FourteenSegments(0, 0, 0, 1, 0, 0, 0, 0, 0, 0, 1, 0, 0, 0, 0, 118))
    @@ (119 :> FourteenSegments(0, 0, 1, 0, 0, 0, 0, 0, 0, 0, 1, 1, 1, 0, 0, 119))
    @@ (120 :> FourteenSegments(0, 1, 0, 1, 1, 0, 1, 0, 0, 0, 0, 0, 0, 0, 0, 120))
    @@ (121 :> FourteenSegments(0, 0, 0, 0, 0, 1, 0, 1, 0, 0, 0, 1, 1, 1, 0, 121))
    @@ (122 :> FourteenSegments(0, 0, 0, 1, 0, 0, 0, 0, 1, 0, 0, 1, 0, 0, 0, 122))
    @@ (123 :> FourteenSegments(0, 0, 0, 1, 0, 0, 1, 0, 1, 0, 0, 1, 0, 0, 1, 123))
    @@ (124 :> FourteenSegments(0, 0, 1, 0, 0, 1, 0, 0, 0, 0, 0, 0, 0, 0, 0, 124))
    @@ (125 :> FourteenSegments(0, 1, 0, 0, 1, 0, 0, 1, 0, 0, 0, 1, 0, 0, 1, 125))
    @@ (126 :> FourteenSegments(0, 0, 0, 1, 1, 0, 0, 1, 1, 0, 0, 0, 0, 0, 0, 126))

\* SIXTEEN_SEGMENTS, lines 743-1052: one entry per key of the dict literal, source order.
SIXTEEN_SEGMENTS ==
    (None :> SixteenSegments(0, 0, 0, 0, 0, 0, 0, 0, 0, 0, 0, 0, 0, 0, 0, 0, 0, 63))
    @@ (32 :> SixteenSegments(0, 0, 0, 0, 0, 0, 0, 0, 0, 0, 0, 0, 0, 0, 0, 0, 0, 32))
    @@ (33 :> SixteenSegments(1, 0, 0, 0, 0, 0, 0, 0, 0, 0, 0, 0, 0, 1, 1, 0, 0, 33))
    @@ (34 :> SixteenSegments(0, 0, 0, 0, 0, 0, 1, 0, 0, 0, 0, 0, 0, 0, 1, 0, 0, 34))
    @@ (35 :> SixteenSegments(0, 1, 0, 1, 0, 1, 1, 0, 0, 0, 0, 1, 1, 1, 1, 0, 0, 35))
    @@ (36 :> SixteenSegments(0, 1, 0, 1, 0, 1, 1, 0, 0, 1, 0, 1, 1, 1, 0, 1, 1, 36))
    @@ (37 :> SixteenSegments(0, 1, 1, 1, 0, 1, 1, 1, 0, 1, 0, 0, 1, 1, 0, 0, 1, 37))
    @@ (38 :> SixteenSegments(0, 1, 0, 0, 1, 0, 1, 0, 1, 0, 1, 1, 1, 1, 0, 0, 1, 38))
    @@ (39 :> SixteenSegments(0, 0, 0, 0, 0, 0, 1, 0, 0, 0, 0, 0, 0, 0, 0, 0, 0, 39))
    @@ (40 :> SixteenSegments(0, 0, 0, 0, 1, 0, 0, 1, 0, 0, 0, 0, 0, 0, 0, 0, 0, 40))
    @@ (41 :> SixteenSegments(0, 0, 1, 0, 0, 0, 0, 0, 1, 0, 0, 0, 0, 0, 0, 0, 0, 41))
    @@ (42 :> SixteenSegments(0, 1, 1, 1, 1, 1, 1, 1, 1, 0, 0, 0, 0, 0, 0, 0, 0, 42))
    @@ (43 :> SixteenSegments(0, 1, 0, 1, 0, 1, 1, 0, 0, 0, 0, 0, 0, 0, 0, 0, 0, 43))
    @@ (44 :> SixteenSegments(0, 0, 1, 0, 0, 0, 0, 0, 0, 0, 0, 0, 0, 0, 0, 0, 0, 44))
    @@ (45 :> SixteenSegments(0, 1, 0, 0, 0, 1, 0, 0, 0, 0, 0, 0, 0, 0, 0, 0, 0, 45))
    @@ (46 :> SixteenSegments(1, 0, 0, 0, 0, 0, 0, 0, 0, 0, 0, 0, 0, 0, 0, 0, 0, 46))
    @@ (47 :> SixteenSegments(0, 0, 1, 0, 0, 0, 0, 1, 0, 0, 0, 0, 0, 0, 0, 0, 0, 47))
    @@ (48 :> SixteenSegments(0, 0, 1, 0, 0, 0, 0, 1, 0, 1, 1, 1, 1, 1, 1, 1, 1, 48))
    @@ (49 :> SixteenSegments(0, 0, 0, 0, 0, 0, 0, 1, 0, 0, 0, 0, 0, 1, 1, 0, 0, 49))
    @@ (50 :> SixteenSegments(0, 1, 0, 0, 0, 1, 0, 0, 0, 0, 1, 1, 1, 0, 1, 1, 1, 50))
    @@ (51 :> SixteenSegments(0, 0, 0, 0, 0, 1, 0, 0, 0, 0, 0, 1, 1, 1, 1, 1, 1, 51))
    @@ (52 :> SixteenSegments(0, 1, 0, 0, 0, 1, 0, 0, 0, 1, 0, 0, 0, 1, 1, 0, 0, 52))
    @@ (53 :> SixteenSegments(0, 1, 0, 0, 1, 0, 0, 0, 0, 1, 0, 1, 1, 0, 0, 1, 1, 53))
    @@ (54 :> SixteenSegments(0, 1, 0, 0, 0, 1, 0, 0, 0, 1, 1, 1, 1, 1, 0, 1, 1, 54))
    @@ (55 :> SixteenSegments(0, 0, 0, 0, 0, 0, 0, 0, 0, 0, 0, 0, 0, 1, 1, 1, 1, 55))
    @@ (56 :> SixteenSegments(0, 1, 0, 0, 0, 1, 0, 0, 0, 1, 1, 1, 1, 1, 1, 1, 1, 56))
    @@ (57 :> SixteenSegments(0, 1, 0, 0, 0, 1, 0, 0, 0, 1, 0, 1, 1, 1, 1, 1, 1, 57))
    @@ (58 :> SixteenSegments(0, 1, 0, 0, 0, 0, 0, 0, 0, 0, 0, 1, 0, 0, 0, 0, 0, 58))
    @@ (59 :> SixteenSegments(0, 0, 1, 0, 0, 0, 1, 0, 0, 0, 0, 0, 0, 0, 0, 0, 0, 59))
    @@ (60 :> SixteenSegments(0, 1, 0, 0, 1, 0, 0, 1, 0, 0, 0, 0, 0, 0, 0, 0, 0, 60))
    @@ (61 :> SixteenSegments(0, 1, 0, 0, 0, 1, 0, 0, 0, 0, 0, 1, 1, 0, 0, 0, 0, 61))
    @@ (62 :> SixteenSegments(0, 0, 1, 0, 0, 1, 0, 0, 1, 0, 0, 0, 0, 0, 0, 0, 0, 62))
    @@ (63 :> SixteenSegments(1, 0, 0, 1, 0, 1, 0, 0, 0, 0, 0, 0, 0, 0, 1, 1, 1, 63))
    @@ (64 :> SixteenSegments(0, 1, 0, 1, 0, 0, 0, 0, 0, 0, 1, 1, 1, 1, 1, 1, 1, 64))
    @@ (65 :> SixteenSegments(0, 1, 0, 0, 0, 1, 0, 0, 0, 1, 1, 0, 0, 1, 1, 1, 1, 65))
    @@ (66 :> SixteenSegments(0, 0, 0, 1, 0, 1, 1, 0, 0, 0, 0, 1, 1, 1, 1, 1, 1, 66))
    @@ (67 :> SixteenSegments(0, 0, 0, 0, 0, 0, 0, 0, 0, 1, 1, 1, 1, 0, 0, 1, 1, 67))
    @@ (68 :> SixteenSegments(0, 0, 0, 1, 0, 0, 1, 0, 0, 0, 0, 1, 1, 1, 1, 1, 1, 68))
    @@ (69 :> SixteenSegments(0, 1, 0, 0, 0, 0, 0, 0, 0, 1, 1, 1, 1, 0, 0, 1, 1, 69))
    @@ (70 :> SixteenSegments(0, 1, 0, 0, 0, 0, 0, 0, 0, 1, 1, 0, 0, 0, 0, 1, 1, 70))
    @@ (71 :> SixteenSegments(0, 0, 0, 0, 0, 1, 0, 0, 0, 1, 1, 1, 1, 1, 0, 1, 1, 71))
    @@ (72 :> SixteenSegments(0, 1, 0, 0, 0, 1, 0, 0, 0, 1, 1, 0, 0, 1, 1, 0, 0, 72))
    @@ (73 :> SixteenSegments(0, 0, 0, 1, 0, 0, 1, 0, 0, 0, 0, 1, 1, 0, 0, 1, 1, 73))
    @@ (74 :> SixteenSegments(0, 0, 0, 0, 0, 0, 0, 0, 0, 0, 1, 1, 1, 1, 1, 0, 0, 74))
    @@ (75 :> SixteenSegments(0, 1, 0, 0, 1, 0, 0, 1, 0, 1, 1, 0, 0, 0, 0, 0, 0, 75))
    @@ (76 :> SixteenSegments(0, 0, 0, 0, 0, 0, 0, 0, 0, 1, 1, 1, 1, 0, 0, 0, 0, 76))
    @@ (77 :> SixteenSegments(0, 0, 0, 0, 0, 0, 0, 1, 1, 1, 1, 0, 0, 1, 1, 0, 0, 77))
    @@ (78 :> SixteenSegments(0, 0, 0, 0, 1, 0, 0, 0, 1, 1, 1, 0, 0, 1, 1, 0, 0, 78))
    @@ (79 :> SixteenSegments(0, 0, 0, 0, 0, 0, 0, 0, 0, 1, 1, 1, 1, 1, 1, 1, 1, 79))
    @@ (80 :> SixteenSegments(0, 1, 0, 0, 0, 1, 0, 0, 0, 1, 1, 0, 0, 0, 1, 1, 1, 80))
    @@ (81 :> SixteenSegments(0, 0, 0, 0, 1, 0, 0, 0, 0, 1, 1, 1, 1, 1, 1, 1, 1, 81))
    @@ (82 :> SixteenSegments(0, 1, 0, 0, 1, 1, 0, 0, 0, 1, 1, 0, 0, 0, 1, 1, 1, 82))
    @@ (83 :> SixteenSegments(0, 1, 0, 0, 0, 1, 0, 0, 0, 1, 0, 1, 1, 1, 0, 1, 1, 83))
    @@ (84 :> SixteenSegments(0, 0, 0, 1, 0, 0, 1, 0, 0, 0, 0, 0, 0, 0, 0, 1, 1, 84))
    @@ (85 :> SixteenSegments(0, 0, 0, 0, 0, 0, 0, 0, 0, 1, 1, 1, 1, 1, 1, 0, 0, 85))
    @@ (86 :> SixteenSegments(0, 0, 1, 0, 0, 0, 0, 1, 0, 1, 1, 0, 0, 0, 0, 0, 0, 86))
    @@ (87 :> SixteenSegments(0, 0, 1, 0, 1, 0, 0, 0, 0, 1, 1, 0, 0, 1, 1, 0, 0, 87))
    @@ (88 :> SixteenSegments(0, 0, 1, 0, 1, 0, 0, 1, 1, 0, 0, 0, 0, 0, 0, 0, 0, 88))
    @@ (89 :> SixteenSegments(0, 1, 0, 0, 0, 1, 0, 0, 0, 1, 0, 1, 1, 1, 1, 0, 0, 89))
    @@ (90 :> SixteenSegments(0, 1, 1, 0, 0, 1, 0, 1, 0, 0, 0, 1, 1, 0, 0, 1, 1, 90))
    @@ (91 :> SixteenSegments(0, 0, 0, 1, 0, 0, 1, 0, 0, 0, 0, 0, 1, 0, 0, 1, 0, 91))
    @@ (92 :> SixteenSegments(0, 0, 0, 0, 1, 0, 0, 0, 1, 0, 0, 0, 0, 0, 0, 0, 0, 34))
    @@ (93 :> SixteenSegments(0, 0, 0, 1, 0, 0, 1, 0, 0, 0, 0, 1, 0, 0, 0, 0, 1, 93))
    @@ (94 :> SixteenSegments(0, 0, 1, 0, 1, 0, 0, 0, 0, 0, 0, 0, 0, 0, 0, 0, 0, 94))
    @@ (95 :> SixteenSegments(0, 0, 0, 0, 0, 0, 0, 0, 0, 0, 0, 1, 1, 0, 0, 0, 0, 95))
    @@ (96 :> SixteenSegments(0, 0, 0, 0, 0, 0, 0, 0, 1, 0, 0, 0, 0, 0, 0, 0, 0, 96))
    @@ (97 :> SixteenSegments(0, 1, 0, 1, 0, 0, 0, 0, 0, 0, 1, 1, 1, 0, 0, 0, 0, 97))
    @@ (98 :> SixteenSegments(0, 1, 0, 0, 0, 1, 0, 0, 0, 1, 1, 1, 1, 1, 0, 0, 0, 98))
    @@ (99 :> SixteenSegments(0, 1, 0, 0, 0, 1, 0, 0, 0, 0, 1, 1, 1, 0, 0, 0, 0, 99))
    @@ (100 :> SixteenSegments(0, 1, 0, 0, 0, 1, 0, 0, 0, 0, 1, 1, 1, 1, 1, 0, 0, 100))
    @@ (101 :> SixteenSegments(0, 1, 1, 0, 0, 0, 0, 0, 0, 0, 1, 1, 0, 0, 0, 0, 0, 101))
    @@ (102 :> SixteenSegments(0, 1, 0, 1, 0, 1, 1, 0, 0, 0, 0, 0, 0, 0, 0, 1, 0, 102))
    @@ (103 :> SixteenSegments(0, 1, 0, 1, 0, 0, 1, 0, 0, 1, 0, 1, 0, 0, 0, 0, 1, 103))
    @@ (104 :> SixteenSegments(0, 1, 0, 0, 0, 1, 0, 0, 0, 1, 1, 0, 0, 1, 0, 0, 0, 104))
    @@ (105 :> SixteenSegments(0, 0, 0, 1, 0, 0, 0, 0, 0, 0, 0, 0, 0, 0, 0, 1, 0, 105))
    @@ (106 :> SixteenSegments(0, 0, 0, 1, 0, 0, 1, 0, 0, 0, 1, 1, 0, 0, 0, 0, 0, 106))
    @@ (107 :> SixteenSegments(0, 0, 0, 1, 1, 0, 1, 1, 0, 0, 0, 0, 0, 0, 0, 0, 0, 107))
    @@ (108 :> SixteenSegments(0, 0, 0, 1, 0, 0, 1, 0, 0, 0, 0, 0, 1, 0, 0, 0, 0, 108))
    @@ (109 :> SixteenSegments(0, 1, 0, 1, 0, 1, 0, 0, 0, 0, 1, 0, 0, 1, 0, 0, 0, 109))
    @@ (110 :> SixteenSegments(0, 1, 0, 0, 0, 1, 0, 0, 0, 0, 1, 0, 0, 1, 0, 0, 0, 110))
    @@ (111 :> SixteenSegments(0, 1, 0, 0, 0, 1, 0, 0, 0, 0, 1, 1, 1, 1, 0, 0, 0, 111))
    @@ (112 :> SixteenSegments(0, 0, 0, 1, 0, 1, 1, 0, 0, 0, 0, 0, 0, 0, 1, 1, 0, 112))
    @@ (113 :> SixteenSegments(0, 1, 0, 1, 0, 0, 1, 0, 0, 1, 0, 0, 1, 0, 0, 0, 1, 113))
    @@ (114 :> SixteenSegments(0, 1, 0, 0, 0, 1, 0, 0, 0, 0, 1, 0, 0, 0, 0, 0, 0, 114))
    @@ (115 :> SixteenSegments(0, 1, 0, 1, 0, 0, 0, 0, 0, 1, 0, 1, 0, 0, 0, 0, 1, 115))
    @@ (116 :> SixteenSegments(0, 1, 0, 1, 0, 1, 1, 0, 0, 0, 0, 0, 1, 0, 0, 0, 0, 116))
    @@ (117 :> SixteenSegments(0, 0, 0, 0, 0, 0, 0, 0, 0, 0, 1, 1, 1, 1, 0, 0, 0, 117))
    @@ (118 :> SixteenSegments(0, 0, 1, 0, 0, 0, 0, 0, 0, 0, 1, 0, 0, 0, 0, 0, 0, 118))
    @@ (119 :> SixteenSegments(0, 0, 0, 1, 0, 0, 0, 0, 0, 0, 1, 1, 1, 1, 0, 0, 0, 119))
    @@ (120 :> SixteenSegments(0, 0, 1, 0, 1, 0, 0, 1, 1, 0, 0, 0, 0, 0, 0, 0, 0, 120))
    @@ (121 :> SixteenSegments(0, 1, 0, 1, 0, 0, 1, 0, 0, 1, 0, 1, 0, 0, 0, 0, 0, 121))
    @@ (122 :> SixteenSegments(0, 1, 1, 0, 0, 0, 0, 0, 0, 0, 0, 1, 0, 0, 0, 0, 0, 122))
    @@ (123 :> SixteenSegments(0, 1, 0, 1, 0, 0, 1, 0, 0, 0, 0, 0, 1, 0, 0, 1, 0, 123))
    @@ (124 :> SixteenSegments(0, 0, 0, 1, 0, 0, 1, 0, 0, 0, 0, 0, 0, 0, 0, 0, 0, 124))
    @@ (125 :> SixteenSegments(0, 0, 0, 1, 0, 1, 1, 0, 0, 0, 0, 1, 0, 0, 0, 0, 1, 125))
    @@ (126 :> SixteenSegments(0, 1, 1, 0, 0, 1, 0, 1, 0, 0, 0, 0, 0, 0, 0, 0, 0, 126))
    @@ (161 :> SixteenSegments(0, 0, 0, 0, 0, 0, 0, 0, 0, 1, 1, 0, 0, 0, 0, 1, 0, 161))
    @@ (162 :> SixteenSegments(0, 1, 0, 0, 0, 1, 1, 0, 0, 1, 0, 0, 0, 0, 0, 1, 1, 162))
    @@ (163 :> SixteenSegments(0, 1, 1, 0, 0, 1, 1, 0, 0, 0, 0, 1, 1, 0, 0, 1, 0, 163))
    @@ (164 :> SixteenSegments(0, 1, 0, 0, 0, 1, 0, 0, 0, 1, 0, 0, 0, 0, 1, 1, 1, 164))
    @@ (165 :> SixteenSegments(0, 1, 0, 1, 0, 1, 0, 1, 1, 0, 0, 0, 0, 0, 0, 0, 0, 165))
    @@ (166 :> SixteenSegments(0, 0, 0, 1, 0, 0, 1, 0, 0, 0, 0, 0, 0, 0, 0, 0, 0, 166))
    @@ (167 :> SixteenSegments(0, 1, 0, 0, 1, 1, 0, 0, 1, 0, 0, 0, 1, 0, 0, 0, 1, 167))
    @@ (168 :> SixteenSegments(0, 0, 0, 0, 0, 0, 0, 1, 1, 0, 0, 0, 0, 0, 0, 0, 0, 168))
    @@ (169 :> SixteenSegments(0, 1, 0, 0, 0, 0, 0, 0, 0, 1, 0, 1, 1, 1, 1, 0, 1, 169))
    @@ (170 :> SixteenSegments(0, 1, 0, 0, 0, 1, 1, 0, 0, 1, 0, 0, 0, 0, 0, 0, 1, 170))
    @@ (171 :> SixteenSegments(0, 0, 0, 0, 1, 0, 0, 1, 0, 1, 1, 0, 0, 0, 0, 0, 0, 171))
    @@ (172 :> SixteenSegments(0, 1, 0, 0, 0, 1, 0, 0, 0, 0, 0, 0, 0, 1, 0, 0, 0, 172))
    @@ (174 :> SixteenSegments(0, 0, 0, 1, 1, 1, 1, 0, 0, 0, 0, 0, 0, 0, 1, 1, 0, 174))
    @@ (175 :> SixteenSegments(0, 0, 0, 0, 0, 0, 0, 0, 0, 0, 0, 0, 0, 0, 0, 1, 1, 175))
    @@ (176 :> SixteenSegments(0, 1, 0, 0, 0, 0, 1, 0, 0, 1, 0, 0, 0, 0, 0, 0, 1, 176))
    @@ (177 :> SixteenSegments(0, 1, 0, 1, 0, 1, 1, 0, 0, 0, 0, 1, 1, 0, 0, 0, 0, 177))
    @@ (178 :> SixteenSegments(0, 0, 0, 0, 0, 1, 0, 1, 0, 0, 0, 0, 0, 0, 0, 1, 0, 178))
    @@ (179 :> SixteenSegments(0, 0, 0, 0, 0, 1, 0, 0, 0, 0, 0, 0, 1, 1, 1, 1, 0, 179))
    @@ (180 :> SixteenSegments(0, 0, 0, 0, 0, 0, 0, 1, 0, 0, 0, 0, 0, 0, 0, 0, 0, 180))
    @@ (181 :> SixteenSegments(0, 1, 0, 0, 0, 1, 1, 0, 0, 1, 1, 0, 0, 0, 0, 0, 0, 181))
    @@ (182 :> SixteenSegments(0, 1, 0, 1, 0, 0, 1, 0, 0, 1, 0, 0, 0, 1, 1, 1, 1, 182))
    @@ (183 :> SixteenSegments(0, 1, 0, 0, 0, 0, 0, 0, 0, 0, 0, 0, 0, 0, 0, 0, 0, 183))
    @@ (184 :> SixteenSegments(0, 0, 0, 0, 1, 0, 0, 0, 0, 0, 0, 0, 1, 0, 0, 0, 0, 184))
    @@ (185 :> SixteenSegments(0, 0, 0, 0, 0, 0, 0, 0, 0, 0, 0, 0, 0, 0, 1, 0, 0, 185))
    @@ (186 :> SixteenSegments(0, 0, 0, 0, 0, 1, 1, 0, 0, 0, 0, 0, 0, 0, 1, 1, 0, 186))
    @@ (187 :> SixteenSegments(0, 0, 1, 0, 0, 0, 0, 0, 1, 0, 0, 0, 0, 1, 1, 0, 0, 187))
    @@ (191 :> SixteenSegments(0, 1, 0, 0, 0, 0, 1, 0, 0, 0, 1, 1, 1, 0, 0, 0, 0, 191))
    @@ (192 :> SixteenSegments(0, 1, 0, 0, 0, 1, 0, 0, 0, 1, 1, 0, 0, 1, 1, 1, 1, 192))
    @@ (193 :> SixteenSegments(0, 1, 0, 0, 0, 1, 0, 0, 0, 1, 1, 0, 0, 1, 1, 1, 1, 193))
    @@ (194 :> SixteenSegments(0, 1, 0, 0, 0, 1, 0, 0, 0, 1, 1, 0, 0, 1, 1, 1, 1, 194))
    @@ (195 :> SixteenSegments(0, 1, 0, 0, 0, 1, 0, 0, 0, 1, 1, 0, 0, 1, 1, 1, 1, 195))
    @@ (196 :> SixteenSegments(0, 1, 0, 0, 0, 1, 0, 0, 0, 1, 1, 0, 0, 1, 1, 1, 1, 196))
    @@ (197 :> SixteenSegments(0, 1, 0, 0, 0, 1, 0, 0, 0, 1, 1, 0, 0, 1, 1, 1, 1, 197))
    @@ (198 :> SixteenSegments(0, 1, 0, 1, 0, 1, 1, 0, 0, 1, 1, 0, 1, 0, 0, 1, 1, 198))
    @@ (199 :> SixteenSegments(0, 0, 0, 1, 0, 0, 0, 0, 0, 1, 1, 1, 1, 0, 0, 1, 1, 199))
    @@ (200 :> SixteenSegments(0, 1, 0, 0, 0, 0, 0, 0, 0, 1, 1, 1, 1, 0, 0, 1, 1, 200))
    @@ (201 :> SixteenSegments(0, 1, 0, 0, 0, 0, 0, 0, 0, 1, 1, 1, 1, 0, 0, 1, 1, 201))
    @@ (202 :> SixteenSegments(0, 1, 0, 0, 0, 0, 0, 0, 0, 1, 1, 1, 1, 0, 0, 1, 1, 202))
    @@ (203 :> SixteenSegments(0, 1, 0, 0, 0, 0, 0, 0, 0, 1, 1, 1, 1, 0, 0, 1, 1, 203))
    @@ (204 :> SixteenSegments(0, 0, 0, 1, 0, 0, 1, 0, 0, 0, 0, 1, 1, 0, 0, 1, 1, 204))
    @@ (205 :> SixteenSegments(0, 0, 0, 1, 0, 0, 1, 0, 0, 0, 0, 1, 1, 0, 0, 1, 1, 205))
    @@ (206 :> SixteenSegments(0, 0, 0, 1, 0, 0, 1, 0, 0, 0, 0, 1, 1, 0, 0, 1, 1, 206))
    @@ (207 :> SixteenSegments(0, 0, 0, 1, 0, 0, 1, 0, 0, 0, 0, 1, 1, 0, 0, 1, 1, 207))
    @@ (208 :> SixteenSegments(0, 1, 0, 1, 0, 0, 1, 0, 0, 0, 0, 1, 1, 1, 1, 1, 1, 208))
    @@ (209 :> SixteenSegments(0, 0, 0, 0, 1, 0, 0, 0, 1, 1, 1, 0, 0, 1, 1, 0, 0, 209))
    @@ (210 :> SixteenSegments(0, 0, 0, 0, 0, 0, 0, 0, 0, 1, 1, 1, 1, 1, 1, 1, 1, 210))
    @@ (211 :> SixteenSegments(0, 0, 0, 0, 0, 0, 0, 0, 0, 1, 1, 1, 1, 1, 1, 1, 1, 211))
    @@ (212 :> SixteenSegments(0, 0, 0, 0, 0, 0, 0, 0, 0, 1, 1, 1, 1, 1, 1, 1, 1, 212))
    @@ (213 :> SixteenSegments(0, 0, 0, 0, 0, 0, 0, 0, 0, 1, 1, 1, 1, 1, 1, 1, 1, 213))
    @@ (214 :> SixteenSegments(0, 0, 0, 0, 0, 0, 0, 0, 0, 1, 1, 1, 1, 1, 1, 1, 1, 214))
    @@ (215 :> SixteenSegments(0, 0, 1, 0, 1, 0, 0, 1, 1, 0, 0, 0, 0, 0, 0, 0, 0, 215))
    @@ (216 :> SixteenSegments(0, 0, 0, 1, 0, 0, 1, 0, 0, 1, 1, 1, 1, 1, 1, 1, 1, 216))
    @@ (217 :> SixteenSegments(0, 0, 0, 0, 0, 0, 0, 0, 0, 1, 1, 1, 1, 1, 1, 0, 0, 217))
    @@ (218 :> SixteenSegments(0, 0, 0, 0, 0, 0, 0, 0, 0, 1, 1, 1, 1, 1, 1, 0, 0, 218))
    @@ (219 :> SixteenSegments(0, 0, 0, 0, 0, 0, 0, 0, 0, 1, 1, 1, 1, 1, 1, 0, 0, 219))
    @@ (220 :> SixteenSegments(0, 0, 0, 0, 0, 0, 0, 0, 0, 1, 1, 1, 1, 1, 1, 0, 0, 220))
    @@ (221 :> SixteenSegments(0, 1, 0, 0, 0, 1, 0, 0, 0, 1, 0, 1, 1, 1, 1, 0, 0, 221))
    @@ (222 :> SixteenSegments(0, 1, 0, 1, 0, 1, 1, 0, 0, 0, 0, 0, 0, 0, 1, 1, 1, 222))
    @@ (223 :> SixteenSegments(0, 1, 0, 0, 1, 0, 1, 0, 0, 1, 1, 0, 1, 0, 0, 0, 1, 223))
    @@ (224 :> SixteenSegments(0, 1, 0, 1, 0, 0, 0, 0, 1, 0, 1, 1, 1, 0, 0, 0, 0, 224))
    @@ (225 :> SixteenSegments(0, 1, 0, 1, 0, 0, 0, 1, 0, 0, 1, 1, 1, 0, 0, 0, 0, 225))
    @@ (226 :> SixteenSegments(0, 1, 0, 1, 0, 0, 0, 1, 0, 0, 1, 1, 1, 0, 1, 0, 0, 226))
    @@ (227 :> SixteenSegments(0, 1, 0, 1, 0, 0, 0, 0, 0, 0, 1, 1, 1, 0, 0, 1, 1, 227))
    @@ (228 :> SixteenSegments(0, 1, 0, 1, 0, 0, 0, 1, 1, 0, 1, 1, 1, 0, 0, 0, 0, 228))
    @@ (229 :> SixteenSegments(0, 1, 0, 1, 0, 1, 1, 0, 0, 0, 1, 1, 1, 0, 1, 1, 0, 229))
    @@ (230 :> SixteenSegments(0, 1, 0, 1, 0, 1, 1, 0, 0, 0, 1, 1, 1, 0, 0, 1, 0, 230))
    @@ (231 :> SixteenSegments(0, 1, 0, 0, 1, 1, 0, 0, 0, 1, 0, 0, 1, 0, 0, 1, 1, 231))
    @@ (232 :> SixteenSegments(0, 1, 1, 0, 0, 0, 0, 0, 1, 0, 1, 1, 0, 0, 0, 0, 0, 232))
    @@ (233 :> SixteenSegments(0, 1, 1, 0, 0, 0, 0, 1, 0, 0, 1, 1, 0, 0, 0, 0, 0, 233))
    @@ (234 :> SixteenSegments(0, 1, 1, 0, 0, 0, 0, 1, 0, 0, 1, 1, 0, 0, 1, 0, 0, 234))
    @@ (235 :> SixteenSegments(0, 1, 1, 0, 0, 0, 0, 1, 1, 0, 1, 1, 0, 0, 0, 0, 0, 235))
    @@ (236 :> SixteenSegments(0, 0, 0, 1, 0, 0, 0, 0, 1, 0, 0, 0, 0, 0, 0, 0, 0, 236))
    @@ (237 :> SixteenSegments(0, 0, 0, 1, 0, 0, 0, 1, 0, 0, 0, 0, 0, 0, 0, 0, 0, 237))
    @@ (238 :> SixteenSegments(0, 0, 0, 1, 0, 0, 0, 1, 0, 0, 0, 0, 0, 0, 1, 0, 0, 238))
    @@ (239 :> SixteenSegments(0, 0, 0, 1, 0, 0, 0, 1, 1, 0, 0, 0, 0, 0, 0, 0, 0, 239))
    @@ (240 :> SixteenSegments(0, 1, 0, 1, 0, 0, 1, 1, 0, 0, 1, 1, 0, 0, 0, 0, 0, 240))
    @@ (241 :> SixteenSegments(0, 1, 0, 0, 0, 1, 0, 0, 0, 0, 1, 0, 0, 1, 0, 1, 1, 241))
    @@ (242 :> SixteenSegments(0, 1, 0, 0, 0, 1, 0, 0, 1, 0, 1, 1, 1, 1, 0, 0, 0, 242))
    @@ (243 :> SixteenSegments(0, 1, 0, 0, 0, 1, 0, 1, 0, 0, 1, 1, 1, 1, 0, 0, 0, 243))
    @@ (244 :> SixteenSegments(0, 1, 0, 0, 0, 1, 0, 1, 0, 0, 1, 1, 1, 1, 1, 0, 0, 244))
    @@ (245 :> SixteenSegments(0, 1, 0, 0, 0, 1, 0, 0, 0, 0, 1, 1, 1, 1, 0, 1, 1, 245))
    @@ (246 :> SixteenSegments(0, 1, 0, 0, 0, 1, 0, 1, 1, 0, 1, 1, 1, 1, 0, 0, 0, 246))
    @@ (247 :> SixteenSegments(0, 1, 0, 0, 0, 1, 0, 0, 0, 0, 0, 0, 1, 0, 0, 0, 1, 247))
    @@ (248 :> SixteenSegments(0, 1, 0, 1, 0, 1, 0, 0, 0, 0, 1, 1, 1, 1, 0, 0, 0, 248))
    @@ (249 :> SixteenSegments(0, 0, 0, 0, 0, 0, 0, 0, 1, 0, 1, 1, 1, 1, 0, 0, 0, 249))
    @@ (250 :> SixteenSegments(0, 0, 0, 0, 0, 0, 0, 1, 0, 0, 1, 1, 1, 1, 0, 0, 0, 250))
    @@ (251 :> SixteenSegments(0, 0, 0, 0, 0, 0, 0, 1, 0, 0, 1, 1, 1, 1, 1, 0, 0, 251))
    @@ (252 :> SixteenSegments(0, 0, 0, 0, 0, 0, 0, 1, 1, 0, 1, 1, 1, 1, 0, 0, 0, 252))
    @@ (253 :> SixteenSegments(0, 1, 0, 1, 0, 0, 1, 0, 0, 1, 0, 1, 0, 0, 0, 0, 0, 253))
    @@ (254 :> SixteenSegments(0, 1, 0, 1, 0, 1, 1, 0, 0, 0, 0, 1, 1, 1, 0, 0, 0, 254))
    @@ (255 :> SixteenSegments(0, 1, 0, 1, 0, 0, 1, 0, 0, 1, 0, 1, 0, 0, 0, 0, 0, 255))
\* ASCII_SEGMENTS, lines 1075-1079: the None entry, then one entry per
\* i in range(128) with ascii_value = i and char = chr(i).
ASCII_SEGMENTS ==
    [i \in {None} \cup 0..127 |->
        IF i = None THEN AsciiSegment(0, SPACE, SPACE) ELSE AsciiSegment(0, i, i)]

TableNames ==
    {"BCD_SEGMENTS", "SEVEN_SEGMENTS", "EIGHT_SEGMENTS", "FOURTEEN_SEGMENTS",
     "SIXTEEN_SEGMENTS", "ASCII_SEGMENTS"}

\* A segment_mapping argument built by a caller: the SEVEN_SEGMENTS objects
\* of " " and "1", and no entry for the key None.
CALLER_MAPPING == [key \in {SPACE, 49} |-> SEVEN_SEGMENTS[key]]

TableOf(name) ==
    CASE name = "BCD_SEGMENTS" -> BCD_SEGMENTS
      [] name = "SEVEN_SEGMENTS" -> SEVEN_SEGMENTS
      [] name = "EIGHT_SEGMENTS" -> EIGHT_SEGMENTS
      [] name = "FOURTEEN_SEGMENTS" -> FOURTEEN_SEGMENTS
      [] name = "SIXTEEN_SEGMENTS" -> SIXTEEN_SEGMENTS
      [] name = "ASCII_SEGMENTS" -> ASCII_SEGMENTS
      [] name = "CALLER_MAPPING" -> CALLER_MAPPING

\* The references of the objects the module stores in its tables.
TableRefs == UNION {{<<name, key>> : key \in DOMAIN TableOf(name)} : name \in TableNames}

\* NAMED_RGB_COLORS["white"] of mpf.core.rgb_color, line 64.
White == "white"

----------------------------------------------------------------------------
(* Bounds and input alphabets of the model.                                *)

\* Longest plain text given to map_text_to_segments.
MaxTextLen == 5
\* Longest cell sequence given to the two SegmentDisplayText entry points.
MaxCells == 2
\* Largest display_width.
MaxWidth == 4
\* Most copy_with_dp_on calls in a row in the value specification.
MaxCopies == 2

\* A code point that no table has as a key.
Unmapped ==
    CHOOSE code \in 0..1000 : \A name \in TableNames : code \notin DOMAIN TableOf(name)

\* Characters of the plain texts: "1", ".", "!" and an unmapped character.
TextCodes == {49, PERIOD, 33, Unmapped}
\* Character codes of the cells: "1", "." and an unmapped character.
CellCodes == {49, PERIOD, Unmapped}
\* Colors of the cells.
Colors == {"red", White}

\* The characters of a SegmentDisplayText: char_code, dot and color.
Cells == [char_code : CellCodes, dot : BOOLEAN, color : Colors]

SeqsUpTo(S, n) == UNION {[1..k -> S] : k \in 0..n}

----------------------------------------------------------------------------
(* State.                                                                  *)

VARIABLES
    heap,             \* objects created or written after module initialisation
    nextobj,          \* number of objects created after module initialisation
    fn,               \* the entry point called, or "none"
    text,             \* argument text
    display_width,    \* argument display_width
    segment_mapping,  \* argument segment_mapping: the name of a table
    embed_dots,       \* argument embed_dots
    text_position,    \* scan cursor: characters of text consumed so far
    segments,         \* the local list segments, and the returned list
    pc,               \* position in the entry point
    percell,          \* segments as it was when the scan loop ended
    operands,         \* value specification: the references computed so far
    call,             \* value specification: the last method call and its result
    inv               \* concurrent specification: the locals of each invocation

vars == <<heap, nextobj, fn, text, display_width, segment_mapping, embed_dots,
          text_position, segments, pc, percell, operands, call, inv>>

mapperVars == <<fn, text, display_width, segment_mapping, embed_dots,
                text_position, segments, pc, percell, inv>>

EmptyHeap == [ref \in {} |-> ref]

\* The value of call before any method call.
NoCall == [op |-> "none", self |-> 0, other |-> 0, ret |-> FALSE]

\* The object a reference denotes in heap h.
Deref(h, ref) == IF ref \in DOMAIN h THEN h[ref] ELSE TableOf(ref[1])[ref[2]]

\* The reference of the n-th object created after module initialisation.
NewRef(n) == <<"new", n>>

----------------------------------------------------------------------------
(* Segment.copy_with_dp_on and Segment.__eq__.                             *)

\* The copy that turns the dot on in self and returns self.
copy_with_dp_on_inplace(h, n, self) ==
    [heap |-> (self :> [Deref(h, self) EXCEPT !["dp"] = 1]) @@ h, ref |-> self]

\* The copy that flips the dot instead of turning it on.
copy_with_dp_on_toggle(h, n, self) ==
    LET attr == [PublicAttrs(Deref(h, self)) EXCEPT !["dp"] = 1 - @]
        new_segment == Construct(Deref(h, self)["__class__"], attr)
    IN  [heap |-> (NewRef(n + 1) :> new_segment) @@ h, ref |-> NewRef(n + 1)]

\* copy_with_dp_on, lines 120-126, called on self in heap h when n objects
\* have been created: the heap afterwards and the reference returned.
copy_with_dp_on(h, n, self) ==
    LET attr == [PublicAttrs(Deref(h, self)) EXCEPT !["dp"] = 1]
        new_segment == Construct(Deref(h, self)["__class__"], attr)
    IN  [heap |-> (NewRef(n + 1) :> new_segment) @@ h, ref |-> NewRef(n + 1)]

\* The comparison that leaves char out.
Segment_eq_flags(h, self, other) ==
    LET attr_self == PublicAttrs(Deref(h, self))
        attr_other == PublicAttrs(Deref(h, other))
    IN  \A attr \in DOMAIN attr_self \ {"char"} : attr_self[attr] = attr_other[attr]

\* __eq__, lines 128-134.
Segment_eq(h, self, other) ==
    LET attr_self == PublicAttrs(Deref(h, self))
        attr_other == PublicAttrs(Deref(h, other))
    IN  attr_self = attr_other

----------------------------------------------------------------------------
(* TextToSegmentMapper.                                                    *)

\* The value that stands for the KeyError of segment_mapping[None].
KeyError == <<"KeyError", None>>

\* The lookup segment_mapping[code], which raises for a missing code.
DictGet_subscript(mapping, code) ==
    IF code \in DOMAIN TableOf(mapping) THEN <<mapping, code>> ELSE KeyError

\* segment_mapping.get(code, segment_mapping[None]), lines 32, 43, 53, 64,
\* 80, 99: the default is evaluated first and raises when the key None is
\* missing; the result is the stored object itself.
DictGet(mapping, code) ==
    IF None \notin DOMAIN TableOf(mapping) THEN KeyError
    ELSE IF code \in DOMAIN TableOf(mapping) THEN <<mapping, code>>
    ELSE <<mapping, None>>

\* The slice that keeps the leading elements instead of the trailing ones.
PySliceFrom_leading(lst, start) ==
    SubSeq(lst, 1, IF start < 0 THEN -start ELSE Len(lst) - start)

\* lst[start:] of Python for a list of length Len(lst), lines 39, 60, 95:
\* a negative start counts from the end, and start is clipped to the list.
PySliceFrom(lst, start) ==
    LET first == IF start < 0
                 THEN (IF Len(lst) + start < 0 THEN 0 ELSE Len(lst) + start)
                 ELSE (IF start > Len(lst) THEN Len(lst) ELSE start)
    IN  SubSeq(lst, first + 1, Len(lst))

\* The insertion that appends instead of prepending.
InsertFront_append(lst, x) == lst \o <<x>>

\* lst.insert(0, x), lines 43, 64, 99.
InsertFront(lst, x) == <<x>> \o lst

Init ==
    /\ heap = EmptyHeap
    /\ nextobj = 0
    /\ fn \in {"map_text_to_segments", "map_segment_text_to_segments",
               "map_segment_text_to_segments_with_color"}
    /\ text \in IF fn = "map_text_to_segments"
                THEN SeqsUpTo(TextCodes, MaxTextLen)
                ELSE SeqsUpTo(Cells, MaxCells)
    /\ display_width \in 0..MaxWidth
    /\ segment_mapping \in TableNames
    /\ embed_dots \in IF fn = "map_text_to_segments" THEN BOOLEAN ELSE {TRUE}
    /\ text_position = 0
    /\ segments = <<>>
    /\ pc = "scan"
    /\ percell = <<>>
    /\ operands = <<>>
    /\ call = NoCall
    /\ inv = <<>>

\* A failed lookup leaves the call with the KeyError.
Raise ==
    /\ pc' = "KeyError"
    /\ UNCHANGED <<heap, nextobj, text_position, segments>>

\* One iteration of the loop of map_segment_text_to_segments, lines 31-35.
MapSegmentTextLoop ==
    /\ pc = "scan"
    /\ fn = "map_segment_text_to_segments"
    /\ text_position < Len(text)
    /\ LET char == text[text_position + 1]
           mapping == DictGet(segment_mapping, char.char_code)
           copy == copy_with_dp_on(heap, nextobj, mapping)
       IN  IF mapping = KeyError THEN Raise
           ELSE /\ text_position' = text_position + 1
                /\ IF char.dot
                   THEN /\ heap' = copy.heap
                        /\ nextobj' = nextobj + 1
                        /\ segments' = Append(segments, copy.ref)
                   ELSE /\ segments' = Append(segments, mapping)
                        /\ UNCHANGED <<heap, nextobj>>
                /\ pc' = pc
    /\ UNCHANGED <<fn, text, display_width, segment_mapping, embed_dots, percell,
                   operands, call, inv>>

\* One iteration of the loop of map_segment_text_to_segments_with_color,
\* lines 52-56.
MapSegmentTextWithColorLoop ==
    /\ pc = "scan"
    /\ fn = "map_segment_text_to_segments_with_color"
    /\ text_position < Len(text)
    /\ LET char == text[text_position + 1]
           mapping == DictGet(segment_mapping, char.char_code)
           copy == copy_with_dp_on(heap, nextobj, mapping)
       IN  IF mapping = KeyError THEN Raise
           ELSE /\ text_position' = text_position + 1
                /\ IF char.dot
                   THEN /\ heap' = copy.heap
                        /\ nextobj' = nextobj + 1
                        /\ segments' = Append(segments, <<copy.ref, char.color>>)
                   ELSE /\ segments' = Append(segments, <<mapping, char.color>>)
                        /\ UNCHANGED <<heap, nextobj>>
                /\ pc' = pc
    /\ UNCHANGED <<fn, text, display_width, segment_mapping, embed_dots, percell,
                   operands, call, inv>>

\* The look-ahead that reads a period past the end of the text.
NextChar_period(txt, position) ==
    IF position < Len(txt) THEN txt[position + 1] ELSE PERIOD

\* try: next_char = text[text_position] except IndexError: next_char = " ",
\* lines 83-86, with text_position the 0-based index of the next character.
NextChar(txt, position) ==
    IF position < Len(txt) THEN txt[position + 1] ELSE SPACE

\* The condition that does not look at the dot of the table value.
TurnsDotOn_any(embed, mapping_dp, next_char) ==
    embed /\ next_char = PERIOD

\* The condition that does not look at embed_dots.
TurnsDotOn_noembed(embed, mapping_dp, next_char) ==
    mapping_dp = 0 /\ next_char = PERIOD

\* The conditions of lines 81 and 87 under which the dot is turned on:
\* embed_dots and not mapping.dp, then next_char == ".".
TurnsDotOn(embed, mapping_dp, next_char) ==
    embed /\ mapping_dp = 0 /\ next_char = PERIOD

\* One iteration of the loop of map_text_to_segments, lines 77-91.
MapTextLoop ==
    /\ pc = "scan"
    /\ fn = "map_text_to_segments"
    /\ text_position < Len(text)
    /\ LET char == text[text_position + 1]
           position == text_position + 1
           mapping == DictGet(segment_mapping, char)
           copy == copy_with_dp_on(heap, nextobj, mapping)
       IN  IF mapping = KeyError THEN Raise
           ELSE IF TurnsDotOn(embed_dots, Deref(heap, mapping).dp,
                              NextChar(text, position))
           THEN /\ heap' = copy.heap
                /\ nextobj' = nextobj + 1
                /\ text_position' = position + 1
                /\ segments' = Append(segments, copy.ref)
                /\ pc' = pc
           ELSE /\ text_position' = position
                /\ segments' = Append(segments, mapping)
                /\ pc' = pc
                /\ UNCHANGED <<heap, nextobj>>
    /\ UNCHANGED <<fn, text, display_width, segment_mapping, embed_dots, percell,
                   operands, call, inv>>

\* "remove leading segments if mapping is too long", lines 38-39, 59-60 and
\* 94-95, reached when the scan loop ends.
RemoveLeading ==
    /\ pc = "scan"
    /\ text_position >= Len(text)
    /\ percell' = segments
    /\ segments' = IF display_width < Len(segments)
                   THEN PySliceFrom(segments, -display_width)
                   ELSE segments
    /\ pc' = "pad"
    /\ UNCHANGED <<heap, nextobj, fn, text, display_width, segment_mapping,
                   embed_dots, text_position, operands, call, inv>>

\* One iteration of "prepend spaces to pad mapping", lines 41-43, 62-64 and
\* 97-99.
PrependSpace ==
    /\ pc = "pad"
    /\ display_width > Len(segments)
    /\ LET space == DictGet(segment_mapping, SPACE)
       IN  IF space = KeyError
           THEN /\ pc' = "KeyError"
                /\ UNCHANGED segments
           ELSE /\ segments' = InsertFront(segments,
                                   IF fn = "map_segment_text_to_segments_with_color"
                                   THEN <<space, White>> ELSE space)
                /\ pc' = pc
    /\ UNCHANGED <<heap, nextobj, fn, text, display_width, segment_mapping,
                   embed_dots, text_position, percell, operands, call, inv>>

\* return segments, lines 45, 66, 101.
Return ==
    /\ pc = "pad"
    /\ ~(display_width > Len(segments))
    /\ pc' = "done"
    /\ UNCHANGED <<heap, nextobj, fn, text, display_width, segment_mapping,
                   embed_dots, text_position, segments, percell, operands, call, inv>>

Next ==
    \/ MapSegmentTextLoop
    \/ MapSegmentTextWithColorLoop
    \/ MapTextLoop
    \/ RemoveLeading
    \/ PrependSpace
    \/ Return

Spec == Init /\ [][Next]_vars

\* Longest text or cell sequence and largest display_width of the calls that
\* are followed to their end.
TermMaxLen == 2
TermMaxWidth == 2

\* Their characters: mapped, period, unmapped.
TermCodes == {49, PERIOD, Unmapped}
TermCells == [char_code : {49, Unmapped}, dot : BOOLEAN, color : {White}]

\* Their tables: no " " and no "." entry, "." with its dot on, "." with its
\* dot off.
TermTables == {"BCD_SEGMENTS", "SEVEN_SEGMENTS", "ASCII_SEGMENTS"}

TermInit ==
    /\ heap = EmptyHeap
    /\ nextobj = 0
    /\ fn \in {"map_text_to_segments", "map_segment_text_to_segments",
               "map_segment_text_to_segments_with_color"}
    /\ text \in IF fn = "map_text_to_segments"
                THEN SeqsUpTo(TermCodes, TermMaxLen)
                ELSE SeqsUpTo(TermCells, TermMaxLen)
    /\ display_width \in 0..TermMaxWidth
    /\ segment_mapping \in TermTables
    /\ embed_dots \in IF fn = "map_text_to_segments" THEN BOOLEAN ELSE {TRUE}
    /\ text_position = 0
    /\ segments = <<>>
    /\ pc = "scan"
    /\ percell = <<>>
    /\ operands = <<>>
    /\ call = NoCall
    /\ inv = <<>>

\* The calls on a table of the module and on a mapping a caller built.
CallerInit ==
    /\ heap = EmptyHeap
    /\ nextobj = 0
    /\ fn \in {"map_text_to_segments", "map_segment_text_to_segments",
               "map_segment_text_to_segments_with_color"}
    /\ text \in IF fn = "map_text_to_segments"
                THEN SeqsUpTo(TermCodes, TermMaxLen)
                ELSE SeqsUpTo(TermCells, TermMaxLen)
    /\ display_width \in 0..TermMaxWidth
    /\ segment_mapping \in {"SEVEN_SEGMENTS", "CALLER_MAPPING"}
    /\ embed_dots \in IF fn = "map_text_to_segments" THEN BOOLEAN ELSE {TRUE}
    /\ text_position = 0
    /\ segments = <<>>
    /\ pc = "scan"
    /\ percell = <<>>
    /\ operands = <<>>
    /\ call = NoCall
    /\ inv = <<>>

CallerSpec == CallerInit /\ [][Next]_vars

\* A call that has started runs on: the interpreter takes the next step of
\* the one thread of the call as long as there is one.
FairSpec == TermInit /\ [][Next]_vars /\ WF_vars(Next)

----------------------------------------------------------------------------
(* The value specification: copy_with_dp_on and __eq__ called on table     *)
(* entries and on the copies made from them.                               *)

\* Keys of the second table entry the value specification draws: None,
\* " ", "!", ".", "1", "2", "?", "U", "V".
CompareKeys == {None, SPACE, 33, PERIOD, 49, 50, 63, 85, 86}

ValueInit ==
    /\ heap = EmptyHeap
    /\ nextobj = 0
    /\ fn = "none"
    /\ text = <<>>
    /\ display_width = 0
    /\ segment_mapping \in TableNames
    /\ embed_dots = TRUE
    /\ text_position = 0
    /\ segments = <<>>
    /\ pc = "idle"
    /\ percell = <<>>
    /\ \E key \in DOMAIN TableOf(segment_mapping) :
       \E key2 \in DOMAIN TableOf(segment_mapping) \cap CompareKeys :
          operands = <<DictGet(segment_mapping, key), DictGet(segment_mapping, key2)>>
    /\ call = NoCall
    /\ inv = <<>>

\* operands[i].copy_with_dp_on(), on the first operand and then on each copy.
CallCopyWithDpOn ==
    /\ pc = "idle"
    /\ call.op # "__eq__"
    /\ Len(operands) < 2 + MaxCopies
    /\ \E i \in {IF Len(operands) = 2 THEN 1 ELSE Len(operands)} :
          LET copy == copy_with_dp_on(heap, nextobj, operands[i])
          IN  /\ heap' = copy.heap
              /\ nextobj' = nextobj + 1
              /\ operands' = Append(operands, copy.ref)
              /\ call' = [op |-> "copy_with_dp_on", self |-> i, other |-> 0,
                          ret |-> copy.ref]
    /\ UNCHANGED mapperVars

\* operands[i] == operands[j]; a behaviour ends with its comparison.
CallEq ==
    /\ pc = "idle"
    /\ call.op # "__eq__"
    /\ \E i \in 1..Len(operands), j \in 1..Len(operands) :
          call' = [op |-> "__eq__", self |-> i, other |-> j,
                   ret |-> Segment_eq(heap, operands[i], operands[j])]
    /\ UNCHANGED <<heap, nextobj, operands>>
    /\ UNCHANGED mapperVars

ValueNext == CallCopyWithDpOn \/ CallEq

ValueSpec == ValueInit /\ [][ValueNext]_vars

----------------------------------------------------------------------------
(* The encoders, and the specification that calls them on table entries    *)
(* and on the copies made from them.                                       *)

\* x << k of Python integers.
Shl(x, k) == x * 2^k

\* x | y of Python integers, for x, y >= 0.
RECURSIVE BitOr(_, _)
BitOr(x, y) ==
    IF x = 0 THEN y
    ELSE IF y = 0 THEN x
    ELSE (IF x % 2 = 1 \/ y % 2 = 1 THEN 1 ELSE 0) + 2 * BitOr(x \div 2, y \div 2)

\* v1 | v2 | ... | vn, evaluated from the left.
RECURSIVE OrOf(_)
OrOf(values) ==
    IF Len(values) = 1 THEN values[1]
    ELSE BitOr(OrOf(SubSeq(values, 1, Len(values) - 1)), values[Len(values)])

\* The value that stands for the ValueError of bytes().
ValueError == <<-1>>

\* bytes([...]): every element must be in range(256).
Bytes(values) ==
    IF \A i \in 1..Len(values) : values[i] \in 0..255 THEN values ELSE ValueError

\* The encoder that shifts dp next to x3.
get_dpx4x3x2x1_encoding_adjacent(self) ==
    Bytes(<<OrOf(<<Shl(self.dp, 4), Shl(self.x3, 3), Shl(self.x2, 2), Shl(self.x1, 1),
                   self.x0>>)>>)

\* BcdSegments.get_dpx4x3x2x1_encoding, lines 152-154.
get_dpx4x3x2x1_encoding(self) ==
    Bytes(<<OrOf(<<Shl(self.dp, 7), Shl(self.x3, 3), Shl(self.x2, 2), Shl(self.x1, 1),
                   self.x0>>)>>)

\* The encoder that packs the flags in the order x0, x1, x2, x3.
get_x4x3x2x1_encoding_reversed(self) ==
    Bytes(<<OrOf(<<Shl(self.x0, 3), Shl(self.x1, 2), Shl(self.x2, 1), self.x3>>)>>)

\* BcdSegments.get_x4x3x2x1_encoding, lines 156-158.
get_x4x3x2x1_encoding(self) ==
    Bytes(<<OrOf(<<Shl(self.x3, 3), Shl(self.x2, 2), Shl(self.x1, 1), self.x0>>)>>)

\* The encoder that also packs dp.
get_gfedcba_encoding_dp(self) ==
    Bytes(<<OrOf(<<Shl(self.dp, 7), Shl(self.g, 6), Shl(self.f, 5), Shl(self.e, 4),
                   Shl(self.d, 3), Shl(self.c, 2), Shl(self.b, 1), self.a>>)>>)

\* SevenSegments.get_gfedcba_encoding, lines 215-218.
get_gfedcba_encoding(self) ==
    Bytes(<<OrOf(<<Shl(self.g, 6), Shl(self.f, 5), Shl(self.e, 4), Shl(self.d, 3),
                   Shl(self.c, 2), Shl(self.b, 1), self.a>>)>>)

\* SevenSegments.get_dpgfedcba_encoding, lines 220-223.
get_dpgfedcba_encoding(self) ==
    Bytes(<<OrOf(<<Shl(self.dp, 7), Shl(self.g, 6), Shl(self.f, 5), Shl(self.e, 4),
                   Shl(self.d, 3), Shl(self.c, 2), Shl(self.b, 1), self.a>>)>>)

\* SevenSegments.get_dpgfeabcd_encoding, lines 225-228.
get_dpgfeabcd_encoding(self) ==
    Bytes(<<OrOf(<<Shl(self.dp, 7), Shl(self.g, 6), Shl(self.f, 5), Shl(self.e, 4),
                   Shl(self.a, 3), Shl(self.b, 2), Shl(self.c, 1), self.d>>)>>)

\* EightSegments.get_hgfedcba_encoding, lines 353-356.
get_hgfedcba_encoding(self) ==
    Bytes(<<OrOf(<<Shl(self.h, 7), Shl(self.g, 6), Shl(self.f, 5), Shl(self.e, 4),
                   Shl(self.d, 3), Shl(self.c, 2), Shl(self.b, 1), self.a>>)>>)

\* FourteenSegments.get_pinmame_encoding, lines 490-495.
get_pinmame_encoding(self) ==
    Bytes(<<OrOf(<<Shl(self.g1, 6), Shl(self.f, 5), Shl(self.e, 4), Shl(self.d, 3),
                   Shl(self.c, 2), Shl(self.b, 1), self.a>>),
            OrOf(<<Shl(self.dp, 7), Shl(self.l, 6), Shl(self.m, 5), Shl(self.n, 4),
                   Shl(self.g2, 3), Shl(self.k, 2), Shl(self.j, 1), self.h>>)>>)

\* The apc encoder that packs dp into the first byte only.
get_apc_encoding_onedp(self) ==
    Bytes(<<OrOf(<<Shl(self.dp, 7), Shl(self.g1, 6), Shl(self.f, 5), Shl(self.e, 4),
                   Shl(self.a, 3), Shl(self.b, 2), Shl(self.c, 1), self.d>>),
            OrOf(<<Shl(self.l, 7), Shl(self.n, 5), Shl(self.m, 4),
                   Shl(self.k, 3), Shl(self.g2, 2), Shl(self.h, 1), self.j>>)>>)

\* FourteenSegments.get_apc_encoding, lines 497-503.
get_apc_encoding(self) ==
    Bytes(<<OrOf(<<Shl(self.dp, 7), Shl(self.g1, 6), Shl(self.f, 5), Shl(self.e, 4),
                   Shl(self.a, 3), Shl(self.b, 2), Shl(self.c, 1), self.d>>),
            OrOf(<<Shl(self.l, 7), Shl(self.dp, 6), Shl(self.n, 5), Shl(self.m, 4),
                   Shl(self.k, 3), Shl(self.g2, 2), Shl(self.h, 1), self.j>>)>>)

\* FourteenSegments.get_vpe_encoding, lines 505-511.
get_vpe_encoding(self) ==
    Bytes(<<OrOf(<<self.a, Shl(self.b, 1), Shl(self.c, 2), Shl(self.d, 3), Shl(self.e, 4),
                   Shl(self.f, 5), Shl(self.g1, 6), Shl(self.h, 7)>>),
            OrOf(<<self.j, Shl(self.k, 1), Shl(self.g2, 2), Shl(self.n, 3), Shl(self.m, 4),
                   Shl(self.l, 5), Shl(self.dp, 6)>>)>>)

\* AsciiSegment.get_ascii_encoding, lines 1066-1068.
get_ascii_encoding(self) == Bytes(<<self.ascii_value>>)

\* The encoder that sets bit 7 whatever dp is.
get_ascii_with_dp_encoding_always(self) ==
    Bytes(<<self.ascii_value + 128>>)

\* AsciiSegment.get_ascii_with_dp_encoding, lines 1070-1072.
get_ascii_with_dp_encoding(self) ==
    Bytes(<<self.ascii_value + (IF self.dp # 0 THEN 128 ELSE 0)>>)

\* getattr(self, encoder)() for an encoder of the class of self.
Encode(encoder, self) ==
    CASE encoder = "get_dpx4x3x2x1_encoding" -> get_dpx4x3x2x1_encoding(self)
      [] encoder = "get_x4x3x2x1_encoding" -> get_x4x3x2x1_encoding(self)
      [] encoder = "get_gfedcba_encoding" -> get_gfedcba_encoding(self)
      [] encoder = "get_dpgfedcba_encoding" -> get_dpgfedcba_encoding(self)
      [] encoder = "get_dpgfeabcd_encoding" -> get_dpgfeabcd_encoding(self)
      [] encoder = "get_hgfedcba_encoding" -> get_hgfedcba_encoding(self)
      [] encoder = "get_pinmame_encoding" -> get_pinmame_encoding(self)
      [] encoder = "get_apc_encoding" -> get_apc_encoding(self)
      [] encoder = "get_vpe_encoding" -> get_vpe_encoding(self)
      [] encoder = "get_ascii_encoding" -> get_ascii_encoding(self)
      [] encoder = "get_ascii_with_dp_encoding" -> get_ascii_with_dp_encoding(self)

\* The encoders of a class: its methods other than copy_with_dp_on.
Encoders(cls) == Methods(cls) \ {"copy_with_dp_on"}

\* operands[i].<encoder>(); a behaviour ends with its encoding.
CallEncode ==
    /\ pc = "idle"
    /\ call.op \in {"none", "copy_with_dp_on"}
    /\ \E i \in 1..Len(operands) :
       \E encoder \in Encoders(Deref(heap, operands[i])["__class__"]) :
          call' = [op |-> encoder, self |-> i, other |-> 0,
                   ret |-> Encode(encoder, Deref(heap, operands[i]))]
    /\ UNCHANGED <<heap, nextobj, operands>>
    /\ UNCHANGED mapperVars

EncodeNext == CallCopyWithDpOn \/ CallEncode

EncodeSpec == ValueInit /\ [][EncodeNext]_vars

----------------------------------------------------------------------------
(* Several invocations of the entry points.  Each invocation has its own   *)
(* arguments and locals, held in a record of inv; the heap is shared.  One *)
(* step of an invocation is one loop iteration, the truncation or the      *)
(* return, as in the specification of a single call.                       *)

\* Number of invocations.
NumInvocations == 2

\* The invocations of a behaviour are for one display: they share its table
\* and its width.  Tables: no " " and no "." entry, "." with its dot on,
\* "." with its dot off.  Widths: one that truncates and one that pads.
ConcTables == {"BCD_SEGMENTS", "SEVEN_SEGMENTS", "ASCII_SEGMENTS"}
ConcWidths == {1, 2}

\* The text and embed_dots arguments of their map_text_to_segments calls:
\* "1", and "1." with the period merged and with the period kept.
ConcTextArgs == {<<<<49>>, TRUE>>, <<<<49, PERIOD>>, TRUE>>, <<<<49, PERIOD>>, FALSE>>}

\* The cell sequences of their other calls: "1" with and without its dot.
ConcCellArgs == {<<c>> : c \in [char_code : {49}, dot : BOOLEAN, color : {"red"}]}

\* The locals of an invocation at its start.
Start(f, txt, width, mapping, embed) ==
    [fn |-> f, text |-> txt, display_width |-> width, segment_mapping |-> mapping,
     embed_dots |-> embed, text_position |-> 0, segments |-> <<>>, pc |-> "scan",
     percell |-> <<>>, returned |-> <<>>]

\* The result of a step: the heap, the number of objects and the locals.
After(h, n, loc) == [heap |-> h, nextobj |-> n, loc |-> loc]

\* Lines 32-35 on the locals loc.
MapSegmentTextIter(h, n, loc) ==
    LET char == loc.text[loc.text_position + 1]
        mapping == DictGet(loc.segment_mapping, char.char_code)
        copy == copy_with_dp_on(h, n, mapping)
    IN  IF mapping = KeyError THEN After(h, n, [loc EXCEPT !.pc = "KeyError"])
        ELSE IF char.dot
        THEN After(copy.heap, n + 1,
                   [loc EXCEPT !.text_position = @ + 1,
                               !.segments = Append(@, copy.ref)])
        ELSE After(h, n, [loc EXCEPT !.text_position = @ + 1,
                                     !.segments = Append(@, mapping)])

\* Lines 53-56 on the locals loc.
MapSegmentTextWithColorIter(h, n, loc) ==
    LET char == loc.text[loc.text_position + 1]
        mapping == DictGet(loc.segment_mapping, char.char_code)
        copy == copy_with_dp_on(h, n, mapping)
    IN  IF mapping = KeyError THEN After(h, n, [loc EXCEPT !.pc = "KeyError"])
        ELSE IF char.dot
        THEN After(copy.heap, n + 1,
                   [loc EXCEPT !.text_position = @ + 1,
                               !.segments = Append(@, <<copy.ref, char.color>>)])
        ELSE After(h, n, [loc EXCEPT !.text_position = @ + 1,
                                     !.segments = Append(@, <<mapping, char.color>>)])

\* Lines 78-91 on the locals loc.
MapTextIter(h, n, loc) ==
    LET char == loc.text[loc.text_position + 1]
        position == loc.text_position + 1
        mapping == DictGet(loc.segment_mapping, char)
        copy == copy_with_dp_on(h, n, mapping)
    IN  IF mapping = KeyError THEN After(h, n, [loc EXCEPT !.pc = "KeyError"])
        ELSE IF TurnsDotOn(loc.embed_dots, Deref(h, mapping).dp,
                           NextChar(loc.text, position))
        THEN After(copy.heap, n + 1,
                   [loc EXCEPT !.text_position = position + 1,
                               !.segments = Append(@, copy.ref)])
        ELSE After(h, n, [loc EXCEPT !.text_position = position,
                                     !.segments = Append(@, mapping)])

\* Lines 38-39, 59-60 and 94-95 on the locals loc.
RemoveLeadingIn(h, n, loc) ==
    After(h, n, [loc EXCEPT !.percell = loc.segments,
                            !.segments = IF loc.display_width < Len(loc.segments)
                                         THEN PySliceFrom(loc.segments, -loc.display_width)
                                         ELSE loc.segments,
                            !.pc = "pad"])

\* The padding that pairs the space with black.
PadValue_black(f, space) ==
    IF f = "map_segment_text_to_segments_with_color" THEN <<space, "black">> ELSE space

\* The value lines 43, 64 and 99 insert: the space, paired with white in
\* map_segment_text_to_segments_with_color.
PadValue(f, space) ==
    IF f = "map_segment_text_to_segments_with_color" THEN <<space, White>> ELSE space

\* Lines 41-43, 62-64 and 97-99 on the locals loc.
PrependSpaceIn(h, n, loc) ==
    LET space == DictGet(loc.segment_mapping, SPACE)
    IN  IF space = KeyError THEN After(h, n, [loc EXCEPT !.pc = "KeyError"])
        ELSE After(h, n, [loc EXCEPT !.segments =
                                        InsertFront(@, PadValue(loc.fn, space))])

\* The elements of the list of the locals loc as values: the object of each
\* element in heap h, paired with its color where the entry point pairs them.
ValuesOf(h, loc) ==
    [k \in 1..Len(loc.segments) |->
        IF loc.fn = "map_segment_text_to_segments_with_color"
        THEN <<Deref(h, loc.segments[k][1]), loc.segments[k][2]>>
        ELSE Deref(h, loc.segments[k])]

\* An invocation has returned or raised.
Finished(loc) == loc.pc \in {"done", "KeyError"}

\* Lines 45, 66 and 101 on the locals loc; returned records the values the
\* caller receives.
ReturnIn(h, n, loc) ==
    After(h, n, [loc EXCEPT !.pc = "done", !.returned = ValuesOf(h, loc)])

\* Where the locals loc stand in their entry point.
AtLoop(loc, f) ==
    loc.pc = "scan" /\ loc.fn = f /\ loc.text_position < Len(loc.text)
AtRemoveLeading(loc) == loc.pc = "scan" /\ loc.text_position >= Len(loc.text)
AtPrependSpace(loc) == loc.pc = "pad" /\ loc.display_width > Len(loc.segments)
AtReturn(loc) == loc.pc = "pad" /\ ~(loc.display_width > Len(loc.segments))

\* Invocation i takes the step whose result is after.
Takes(i, after) ==
    /\ heap' = after.heap
    /\ nextobj' = after.nextobj
    /\ inv' = [inv EXCEPT ![i] = after.loc]
    /\ UNCHANGED <<fn, text, display_width, segment_mapping, embed_dots,
                   text_position, segments, pc, percell, operands, call>>

InvMapSegmentTextLoop(i) ==
    /\ AtLoop(inv[i], "map_segment_text_to_segments")
    /\ Takes(i, MapSegmentTextIter(heap, nextobj, inv[i]))

InvMapSegmentTextWithColorLoop(i) ==
    /\ AtLoop(inv[i], "map_segment_text_to_segments_with_color")
    /\ Takes(i, MapSegmentTextWithColorIter(heap, nextobj, inv[i]))

InvMapTextLoop(i) ==
    /\ AtLoop(inv[i], "map_text_to_segments")
    /\ Takes(i, MapTextIter(heap, nextobj, inv[i]))

InvRemoveLeading(i) ==
    /\ AtRemoveLeading(inv[i])
    /\ Takes(i, RemoveLeadingIn(heap, nextobj, inv[i]))

InvPrependSpace(i) ==
    /\ AtPrependSpace(inv[i])
    /\ Takes(i, PrependSpaceIn(heap, nextobj, inv[i]))

InvReturn(i) ==
    /\ AtReturn(inv[i])
    /\ Takes(i, ReturnIn(heap, nextobj, inv[i]))

\* The arguments the concurrent invocations are started with.
ConcStarts(mapping, width) ==
    {Start("map_text_to_segments", args[1], width, mapping, args[2]) :
        args \in ConcTextArgs}
    \cup
    {Start(f, txt, width, mapping, TRUE) :
        f \in {"map_segment_text_to_segments", "map_segment_text_to_segments_with_color"},
        txt \in ConcCellArgs}

\* Invocations that share one table.
ConcInit ==
    /\ heap = EmptyHeap
    /\ nextobj = 0
    /\ fn = "none"
    /\ text = <<>>
    /\ display_width \in ConcWidths
    /\ segment_mapping \in ConcTables
    /\ embed_dots = TRUE
    /\ text_position = 0
    /\ segments = <<>>
    /\ pc = "idle"
    /\ percell = <<>>
    /\ operands = <<>>
    /\ call = NoCall
    /\ inv \in [1..NumInvocations -> ConcStarts(segment_mapping, display_width)]

\* A step of invocation i.
InvStep(i) ==
    \/ InvMapSegmentTextLoop(i)
    \/ InvMapSegmentTextWithColorLoop(i)
    \/ InvMapTextLoop(i)
    \/ InvRemoveLeading(i)
    \/ InvPrependSpace(i)
    \/ InvReturn(i)

ConcNext == \E i \in DOMAIN inv : InvStep(i)

ConcSpec == ConcInit /\ [][ConcNext]_vars

\* One call, between whose steps copy_with_dp_on, __eq__ and the encoders
\* are called on a table entry and on the copies made from it.
FrameInit ==
    /\ heap = EmptyHeap
    /\ nextobj = 0
    /\ fn = "none"
    /\ text = <<>>
    /\ display_width \in ConcWidths
    /\ segment_mapping \in ConcTables
    /\ embed_dots = TRUE
    /\ text_position = 0
    /\ segments = <<>>
    /\ pc = "idle"
    /\ percell = <<>>
    /\ operands = <<DictGet(segment_mapping, 49), DictGet(segment_mapping, 49)>>
    /\ call = NoCall
    /\ \E first \in ConcStarts(segment_mapping, display_width) : inv = <<first>>

FrameNext ==
    \/ \E i \in DOMAIN inv : InvStep(i)
    \/ CallCopyWithDpOn
    \/ CallEq
    \/ CallEncode

FrameSpec == FrameInit /\ [][FrameNext]_vars

\* A call, then a call with any arguments, then a call with the arguments
\* of the first; between their steps copy_with_dp_on and the encoders are
\* called on a table entry and on the copies made from it.
RepeatInit ==
    /\ heap = EmptyHeap
    /\ nextobj = 0
    /\ fn = "none"
    /\ text = <<>>
    /\ display_width \in ConcWidths
    /\ segment_mapping \in ConcTables
    /\ embed_dots = TRUE
    /\ text_position = 0
    /\ segments = <<>>
    /\ pc = "idle"
    /\ percell = <<>>
    /\ operands = <<DictGet(segment_mapping, 49), DictGet(segment_mapping, 49)>>
    /\ call = NoCall
    /\ \E first, other \in ConcStarts(segment_mapping, display_width) :
          inv = <<first, other, first>>

RepeatNext ==
    \/ \E i \in DOMAIN inv :
          /\ \A j \in 1..(i - 1) : Finished(inv[j])
          /\ InvStep(i)
    \/ CallCopyWithDpOn
    \/ CallEncode

RepeatSpec == RepeatInit /\ [][RepeatNext]_vars

\* map_segment_text_to_segments and map_segment_text_to_segments_with_color
\* called with the same arguments, one after the other.
PairInit ==
    /\ heap = EmptyHeap
    /\ nextobj = 0
    /\ fn = "none"
    /\ text \in SeqsUpTo(Cells, MaxCells)
    /\ display_width \in 0..MaxWidth
    /\ segment_mapping \in TableNames
    /\ embed_dots = TRUE
    /\ text_position = 0
    /\ segments = <<>>
    /\ pc = "idle"
    /\ percell = <<>>
    /\ operands = <<>>
    /\ call = NoCall
    /\ inv = <<Start("map_segment_text_to_segments", text, display_width,
                     segment_mapping, embed_dots),
               Start("map_segment_text_to_segments_with_color", text, display_width,
                     segment_mapping, embed_dots)>>

PairNext ==
    \E i \in DOMAIN inv :
      /\ \A j \in 1..(i - 1) : Finished(inv[j])
      /\ \/ InvMapSegmentTextLoop(i)
         \/ InvMapSegmentTextWithColorLoop(i)
         \/ InvRemoveLeading(i)
         \/ InvPrependSpace(i)
         \/ InvReturn(i)

PairSpec == PairInit /\ [][PairNext]_vars

\* The cell sequence with one cell per character of txt: the character's
\* code, and its dot off.
CellsOf(txt) ==
    [k \in 1..Len(txt) |-> [char_code |-> txt[k], dot |-> FALSE, color |-> White]]

\* map_text_to_segments with embed_dots=False, then
\* map_segment_text_to_segments on the cells of the same text, for the same
\* display_width and segment_mapping.
EmbedOffInit ==
    /\ heap = EmptyHeap
    /\ nextobj = 0
    /\ fn = "none"
    /\ text \in SeqsUpTo(TermCodes, TermMaxLen)
    /\ display_width \in 0..TermMaxWidth
    /\ segment_mapping \in TableNames
    /\ embed_dots = FALSE
    /\ text_position = 0
    /\ segments = <<>>
    /\ pc = "idle"
    /\ percell = <<>>
    /\ operands = <<>>
    /\ call = NoCall
    /\ inv = <<Start("map_text_to_segments", text, display_width,
                     segment_mapping, embed_dots),
               Start("map_segment_text_to_segments", CellsOf(text), display_width,
                     segment_mapping, TRUE)>>

EmbedOffNext ==
    \E i \in DOMAIN inv :
      /\ \A j \in 1..(i - 1) : Finished(inv[j])
      /\ \/ InvMapTextLoop(i)
         \/ InvMapSegmentTextLoop(i)
         \/ InvRemoveLeading(i)
         \/ InvPrependSpace(i)
         \/ InvReturn(i)

EmbedOffSpec == EmbedOffInit /\ [][EmbedOffNext]_vars

\* The locals of an invocation that runs alone from the heap h to its end.
RECURSIVE RunAlone(_, _, _)
RunAlone(h, n, loc) ==
    IF AtLoop(loc, "map_segment_text_to_segments")
    THEN LET after == MapSegmentTextIter(h, n, loc)
         IN  RunAlone(after.heap, after.nextobj, after.loc)
    ELSE IF AtLoop(loc, "map_segment_text_to_segments_with_color")
    THEN LET after == MapSegmentTextWithColorIter(h, n, loc)
         IN  RunAlone(after.heap, after.nextobj, after.loc)
    ELSE IF AtLoop(loc, "map_text_to_segments")
    THEN LET after == MapTextIter(h, n, loc)
         IN  RunAlone(after.heap, after.nextobj, after.loc)
    ELSE IF AtRemoveLeading(loc)
    THEN LET after == RemoveLeadingIn(h, n, loc)
         IN  RunAlone(after.heap, after.nextobj, after.loc)
    ELSE IF AtPrependSpace(loc)
    THEN LET after == PrependSpaceIn(h, n, loc)
         IN  RunAlone(after.heap, after.nextobj, after.loc)
    ELSE IF AtReturn(loc)
    THEN LET after == ReturnIn(h, n, loc)
         IN  RunAlone(after.heap, after.nextobj, after.loc)
    ELSE After(h, n, loc)

----------------------------------------------------------------------------
(* Properties.                                                             *)

\* The object of an element of segments: the element, or its first
\* component when the entry point pairs each object with a color.
ElemObject(elem) ==
    Deref(heap, IF fn = "map_segment_text_to_segments_with_color" THEN elem[1] ELSE elem)

\* The last n elements of s.
LastN(s, n) == SubSeq(s, Len(s) - n + 1, Len(s))

\* lookup(map, code) as the specification states it: the entry stored for
\* code when there is one, the fallback entry otherwise.
ExpectedEntry(mapping, code) ==
    IF code \in DOMAIN TableOf(mapping)
    THEN TableOf(mapping)[code]
    ELSE TableOf(mapping)[None]

\* v with its dot on and every other field as in v.
WithDotOn(v) == [v EXCEPT !["dp"] = 1]

\* No period of txt follows a character whose table value has its dot off,
\* so the scan merges no period.
NoPeriodAfterDotOff(mapping, txt) ==
    \A i \in 1..(Len(txt) - 1) :
        txt[i + 1] = PERIOD => ExpectedEntry(mapping, txt[i]).dp = 1

\* C1: every entry point returns a sequence of exactly display_width
\* elements, for every input, table and width >= 0; width 0 returns the
\* empty sequence.
C1_ExactlyWidth ==
    pc = "done" => Len(segments) = display_width

\* C2: when the per-cell result has more elements than display_width, the
\* returned sequence is exactly its last display_width elements, in order.
C2_KeepsTrailing ==
    (pc = "done" /\ Len(percell) > display_width)
        => segments = LastN(percell, display_width)

C4_PadsFront ==
    (pc = "done" /\ Len(percell) <= display_width)
        => LET n == Len(percell)
               pads == display_width - n
               space == IF SPACE \in DOMAIN TableOf(segment_mapping)
                        THEN TableOf(segment_mapping)[SPACE]
                        ELSE TableOf(segment_mapping)[None]
           IN  /\ Len(segments) = display_width
               /\ \A i \in 1..n : segments[pads + i] = percell[i]
               /\ \A i \in 1..pads :
                     /\ ElemObject(segments[i]) = space
                     /\ fn = "map_segment_text_to_segments_with_color"
                            => segments[i][2] = White
               /\ (/\ fn = "map_text_to_segments"
                   /\ text = <<49>>
                   /\ display_width = 4
                   /\ segment_mapping = "SEVEN_SEGMENTS")
                      => /\ \A i \in 1..3 : ElemObject(segments[i]) = SEVEN_SEGMENTS[SPACE]
                         /\ ElemObject(segments[4]) = SEVEN_SEGMENTS[49]
                         /\ ElemObject(segments[4]).dp = 0

\* C4 witness: a non-empty per-cell result has been padded, in a table
\* without an entry for " ".
C4_Witness ==
    /\ pc = "done"
    /\ Len(percell) >= 1
    /\ Len(percell) + 2 <= display_width
    /\ SPACE \notin DOMAIN TableOf(segment_mapping)

\* A step of the scan loop of map_text_to_segments with embed_dots on.
EmbedScanStep ==
    /\ pc = "scan"
    /\ fn = "map_text_to_segments"
    /\ embed_dots
    /\ text_position' # text_position

\* The object of the cell a scan step appends.
Emitted == Deref(heap', segments'[Len(segments')])

\* A scan step appends exactly one cell and keeps the cells before it.
AppendsOneCell ==
    /\ Len(segments') = Len(segments) + 1
    /\ SubSeq(segments', 1, Len(segments)) = segments

\* C5: in map_text_to_segments with embed_dots, when the table value of the
\* current character has its dot off and the next character is a period, the
\* step consumes both characters and emits one cell equal to that value with
\* its dot on; when the next character is no period, or there is none, the
\* step emits the value unchanged and advances one character.
\* map_text_to_segments("1.", 1, SEVEN_SEGMENTS) is the single cell of "1"
\* with dp = 1 and its other flags unchanged.
C5_MergesPeriod ==
    [][ /\ EmbedScanStep =>
            LET value == ExpectedEntry(segment_mapping, text[text_position + 1])
                period_next == /\ text_position + 2 <= Len(text)
                               /\ text[text_position + 2] = PERIOD
            IN  value.dp = 0 =>
                   /\ AppendsOneCell
                   /\ IF period_next
                      THEN /\ text_position' = text_position + 2
                           /\ Emitted = WithDotOn(value)
                      ELSE /\ text_position' = text_position + 1
                           /\ Emitted = value
        /\ (/\ pc' = "done"
            /\ fn = "map_text_to_segments"
            /\ embed_dots
            /\ text = <<49, PERIOD>>
            /\ display_width = 1
            /\ segment_mapping = "SEVEN_SEGMENTS")
               => /\ Len(segments') = 1
                  /\ Deref(heap', segments'[1]).dp = 1
                  /\ \A attr \in Slots("SevenSegments") \ {"dp"} :
                        Deref(heap', segments'[1])[attr] = SEVEN_SEGMENTS[49][attr]
      ]_vars

\* C5 witness: "1." has been mapped at width 1 with SEVEN_SEGMENTS and the
\* period was merged into the cell of "1".
C5_Witness ==
    /\ pc = "done"
    /\ fn = "map_text_to_segments"
    /\ embed_dots
    /\ text = <<49, PERIOD>>
    /\ display_width = 1
    /\ segment_mapping = "SEVEN_SEGMENTS"
    /\ Len(percell) = 1
    /\ Deref(heap, segments[1]).dp = 1

\* "!", "%", "?" and "." have their dot on in SEVEN_SEGMENTS.
SevenDotOnEntries == \A key \in {33, 37, 63, PERIOD} : SEVEN_SEGMENTS[key].dp = 1

\* C6: in map_text_to_segments with embed_dots, when the table value of the
\* current character has its dot on ("!", "%", "?" and "." in
\* SEVEN_SEGMENTS), a following period is not consumed: the step emits the
\* table value unchanged and advances one character, so that the period is
\* the current character of the next step and yields a cell of its own.
C6_KeepsPeriodAfterDotOn ==
    /\ []SevenDotOnEntries
    /\ [][ EmbedScanStep =>
            LET char == text[text_position + 1]
                value == ExpectedEntry(segment_mapping, char)
            IN  /\ value.dp = 1 =>
                       /\ AppendsOneCell
                       /\ text_position' = text_position + 1
                       /\ segments'[Len(segments')] = DictGet(segment_mapping, char)
                       /\ Emitted = value
                       /\ heap' = heap
                \* the period left by the step before is the current character
                \* and yields its own cell
                /\ (/\ char = PERIOD
                    /\ text_position >= 1
                    /\ ExpectedEntry(segment_mapping, text[text_position]).dp = 1)
                       => /\ AppendsOneCell
                          /\ \A attr \in DOMAIN value \ {"dp"} : Emitted[attr] = value[attr]
         ]_vars

\* C6 witness: "!." has been scanned with SEVEN_SEGMENTS and gave two cells.
C6_Witness ==
    /\ fn = "map_text_to_segments"
    /\ embed_dots
    /\ segment_mapping = "SEVEN_SEGMENTS"
    /\ text = <<33, PERIOD>>
    /\ pc = "pad"
    /\ Len(percell) = 2
    /\ Deref(heap, percell[1]) = SEVEN_SEGMENTS[33]
    /\ Deref(heap, percell[2]) = SEVEN_SEGMENTS[PERIOD]

\* The character code a scan step looks up.
ScannedCode ==
    IF fn = "map_text_to_segments"
    THEN text[text_position + 1]
    ELSE text[text_position + 1].char_code

\* Every table has exactly one entry under the key None.
OneFallbackEach ==
    \A name \in TableNames :
        Cardinality({key \in DOMAIN TableOf(name) : key = None}) = 1

\* C7: each of the six tables has exactly one fallback entry (key None), and
\* lookup is total: every scan step of every entry point yields the cell of
\* the table entry of the character's code when the table has one and of the
\* fallback entry otherwise, never fails, and the scan goes on.
C7_LookupTotal ==
    /\ [](OneFallbackEach /\ pc # "KeyError")
    /\ [][ (pc = "scan" /\ text_position < Len(text)) =>
              LET value == IF ScannedCode \in DOMAIN TableOf(segment_mapping)
                           THEN TableOf(segment_mapping)[ScannedCode]
                           ELSE TableOf(segment_mapping)[None]
                  cell == segments'[Len(segments')]
                  object == Deref(heap', IF fn = "map_segment_text_to_segments_with_color"
                                          THEN cell[1] ELSE cell)
              IN  /\ pc' = "scan"
                  /\ text_position' > text_position
                  /\ AppendsOneCell
                  /\ \A attr \in DOMAIN value \ {"dp"} : object[attr] = value[attr]
         ]_vars

\* C7 witness: an unmapped character gave the fallback cell and the scan
\* went on to the next character.
C7_Witness ==
    /\ pc = "scan"
    /\ fn = "map_text_to_segments"
    /\ ~embed_dots
    /\ text_position = 2
    /\ text[1] = Unmapped
    /\ text[2] = 49
    /\ segment_mapping = "SEVEN_SEGMENTS"
    /\ Deref(heap, segments[1]) = SEVEN_SEGMENTS[None]
    /\ Deref(heap, segments[2]) = SEVEN_SEGMENTS[49]

\* The operand that operand i of the value specification is a copy of.
CopiedFrom(i) == IF i = 3 THEN 1 ELSE i - 1

\* C8: copy_with_dp_on returns a new object of the same class as its
\* argument whose dp is on and whose every other field equals the
\* argument's; the argument, the table entries and every other object keep
\* their fields.
C8_CopyLeavesArgument ==
    [][ call'.op = "copy_with_dp_on" =>
           LET self == operands[call'.self]
               before == Deref(heap, self)
               copy == Deref(heap', call'.ret)
           IN  /\ call'.ret \notin DOMAIN heap
               /\ call'.ret[1] \notin TableNames
               /\ \A i \in 1..Len(operands) : call'.ret # operands[i]
               /\ copy["__class__"] = before["__class__"]
               /\ DOMAIN copy = DOMAIN before
               /\ copy.dp = 1
               /\ \A attr \in Slots(before["__class__"]) \ {"dp"} :
                     copy[attr] = before[attr]
               /\ Deref(heap', self) = before
               /\ \A ref \in DOMAIN heap' \ {call'.ret} :
                     /\ ref \in DOMAIN heap
                     /\ ref[1] \notin TableNames
                     /\ heap'[ref] = heap[ref]
      ]_vars

\* C8 witness: a copy has been made of a table entry whose dot is off, and
\* the entry's dot is still off.
C8_Witness ==
    /\ call.op = "copy_with_dp_on"
    /\ call.self = 1
    /\ operands[1][1] \in TableNames
    /\ Deref(heap, operands[1]).dp = 0
    /\ Deref(heap, call.ret).dp = 1

\* C9: copy_with_dp_on is idempotent under __eq__: a copy of a copy equals
\* the copy, and a copy equals its argument whenever the argument's dot is
\* already on.
C9_CopyIdempotent ==
    call.op = "__eq__" =>
        \A i, j \in {call.self, call.other} :
            (/\ i # j
             /\ i >= 3
             /\ j = CopiedFrom(i)
             /\ j >= 3 \/ Deref(heap, operands[j]).dp = 1)
                => call.ret = TRUE

\* C9 witness: the copy of a copy of a dot-off table entry has been compared
\* with the copy.
C9_Witness ==
    /\ call.op = "__eq__"
    /\ call.self = 4
    /\ call.other = 3
    /\ Deref(heap, operands[1]).dp = 0
    /\ call.ret = TRUE

\* C10: two objects of the same class compare equal exactly when dp, every
\* segment flag (or ascii_value) and char all match: "U" and "V" of
\* SEVEN_SEGMENTS have the same flags and are unequal, the fallback entry
\* and the entry of code 63 of BCD_SEGMENTS have the same char and are
\* unequal.
C10_EqualIffAllFields ==
    call.op = "__eq__" =>
        LET self == Deref(heap, operands[call.self])
            other == Deref(heap, operands[call.other])
        IN  /\ self["__class__"] = other["__class__"]
            /\ call.ret = (\A attr \in Slots(self["__class__"]) : self[attr] = other[attr])
            /\ (operands[call.self] = <<"SEVEN_SEGMENTS", 85>>
                    /\ operands[call.other] = <<"SEVEN_SEGMENTS", 86>>)
                  => /\ call.ret = FALSE
                     /\ \A attr \in Slots("SevenSegments") \ {"char"} :
                           self[attr] = other[attr]
            /\ (operands[call.self] = <<"BCD_SEGMENTS", None>>
                    /\ operands[call.other] = <<"BCD_SEGMENTS", 63>>)
                  => /\ call.ret = FALSE
                     /\ self.char = other.char

\* C10 witness: "U" and "V" of SEVEN_SEGMENTS have been compared.
C10_Witness ==
    /\ call.op = "__eq__"
    /\ operands[call.self] = <<"SEVEN_SEGMENTS", 85>>
    /\ operands[call.other] = <<"SEVEN_SEGMENTS", 86>>
    /\ call.ret = FALSE

\* C11: map_segment_text_to_segments produces, before the width is
\* normalised, one value per input cell, in order, with the flags and char of
\* the table entry of the cell's code (the fallback entry for an unmapped
\* code) and its dot on exactly when the cell's dot is set or the entry's dot
\* is on; a cell whose code is the period is emitted as its own cell.
C11_OneValuePerCell ==
    (fn = "map_segment_text_to_segments" /\ pc \in {"pad", "done"})
        => /\ Len(percell) = Len(text)
           /\ \A i \in 1..Len(text) :
                 LET entry == ExpectedEntry(segment_mapping, text[i].char_code)
                     object == Deref(heap, percell[i])
                 IN  /\ \A attr \in DOMAIN entry \ {"dp"} : object[attr] = entry[attr]
                     /\ object.dp \in {0, 1}
                     /\ object.dp = 1 <=> (text[i].dot \/ entry.dp = 1)

\* C11 witness: the cell "1" without dot and the dotted cell ".", whose table
\* entry has its dot on already, have each given their own value.
C11_Witness ==
    /\ fn = "map_segment_text_to_segments"
    /\ pc = "done"
    /\ segment_mapping = "SEVEN_SEGMENTS"
    /\ Len(text) = 2
    /\ text[1].char_code = 49 /\ ~text[1].dot
    /\ text[2].char_code = PERIOD /\ text[2].dot
    /\ Len(percell) = 2
    /\ Deref(heap, percell[1]) = SEVEN_SEGMENTS[49]
    /\ Deref(heap, percell[2]).dp = 1

\* The object an encoder was called on.
Encoded == Deref(heap, operands[call.self])

\* Bit k of a byte.
Bit(byte, k) == (byte \div 2^k) % 2

\* The byte whose bits 0, 1, ... are the elements of flags.
RECURSIVE FromBits(_)
FromBits(flags) ==
    IF flags = <<>> THEN 0
    ELSE flags[1] + 2 * FromBits(SubSeq(flags, 2, Len(flags)))

\* C13: for every SevenSegments value get_gfedcba_encoding returns the byte
\* 64g+32f+16e+8d+4c+2b+a, get_dpgfedcba_encoding that byte plus 128dp and
\* get_dpgfeabcd_encoding the byte 128dp+64g+32f+16e+8a+4b+2c+d; the entry
\* of "0" gives 0111111 under gfedcba and the entry of "!" gives the byte
\* with only bits 7, 2 and 1 set under dpgfedcba.
C13_SevenEncodings ==
    LET v == Encoded
        gfedcba == 64 * v.g + 32 * v.f + 16 * v.e + 8 * v.d + 4 * v.c + 2 * v.b + v.a
    IN  /\ call.op = "get_gfedcba_encoding" =>
              /\ call.ret = <<gfedcba>>
              /\ operands[call.self] = <<"SEVEN_SEGMENTS", 48>> => call.ret = <<63>>
        /\ call.op = "get_dpgfedcba_encoding" =>
              /\ call.ret = <<128 * v.dp + gfedcba>>
              /\ operands[call.self] = <<"SEVEN_SEGMENTS", 33>>
                    => call.ret = <<128 + 4 + 2>>
        /\ call.op = "get_dpgfeabcd_encoding" =>
              call.ret = <<128 * v.dp + 64 * v.g + 32 * v.f + 16 * v.e + 8 * v.a
                           + 4 * v.b + 2 * v.c + v.d>>

\* C13 witness: the dot-on copy of a SEVEN_SEGMENTS entry with its dot off
\* has been encoded by get_gfedcba_encoding.
C13_Witness ==
    /\ call.op = "get_gfedcba_encoding"
    /\ call.self = 3
    /\ operands[1] = <<"SEVEN_SEGMENTS", 48>>
    /\ Encoded.dp = 1
    /\ call.ret = <<63>>

\* C14: every FourteenSegments encoder returns two bytes: pinmame byte0 =
\* g1,f,e,d,c,b,a in bits 6..0 with bit 7 clear and byte1 = dp,l,m,n,g2,k,j,h
\* in bits 7..0; apc byte0 = dp,g1,f,e,a,b,c,d and byte1 = l,dp,n,m,k,g2,h,j
\* in bits 7..0, dp being in both bytes; vpe byte0 = a,b,c,d,e,f,g1,h in bits
\* 0..7 and byte1 = j,k,g2,n,m,l,dp in bits 0..6 with bit 7 clear.
C14_FourteenEncodings ==
    LET v == Encoded
    IN  /\ call.op = "get_pinmame_encoding" =>
              call.ret = <<FromBits(<<v.a, v.b, v.c, v.d, v.e, v.f, v.g1, 0>>),
                           FromBits(<<v.h, v.j, v.k, v.g2, v.n, v.m, v.l, v.dp>>)>>
        /\ call.op = "get_apc_encoding" =>
              /\ call.ret = <<FromBits(<<v.d, v.c, v.b, v.a, v.e, v.f, v.g1, v.dp>>),
                              FromBits(<<v.j, v.h, v.g2, v.k, v.m, v.n, v.dp, v.l>>)>>
              /\ Bit(call.ret[1], 7) = Bit(call.ret[2], 6)
        /\ call.op = "get_vpe_encoding" =>
              call.ret = <<FromBits(<<v.a, v.b, v.c, v.d, v.e, v.f, v.g1, v.h>>),
                           FromBits(<<v.j, v.k, v.g2, v.n, v.m, v.l, v.dp, 0>>)>>

\* C14 witness: a FourteenSegments value with its dot on has been encoded by
\* get_apc_encoding and the dot is in both bytes.
C14_Witness ==
    /\ call.op = "get_apc_encoding"
    /\ Encoded["__class__"] = "FourteenSegments"
    /\ Encoded.dp = 1
    /\ Encoded.l = 1
    /\ Bit(call.ret[1], 7) = 1
    /\ Bit(call.ret[2], 6) = 1

\* C15 as stated: get_dpx4x3x2x1_encoding returns the byte
\* 16dp+8x3+4x2+2x1+x0, the five flags in adjacent bits with x0 at bit 0,
\* and get_x4x3x2x1_encoding the byte 8x3+4x2+2x1+x0.
C15_BcdAdjacentBits ==
    LET v == Encoded
    IN  /\ call.op = "get_dpx4x3x2x1_encoding" =>
              call.ret = <<16 * v.dp + 8 * v.x3 + 4 * v.x2 + 2 * v.x1 + v.x0>>
        /\ call.op = "get_x4x3x2x1_encoding" =>
              call.ret = <<8 * v.x3 + 4 * v.x2 + 2 * v.x1 + v.x0>>

\* C15 amended: get_dpx4x3x2x1_encoding returns the byte
\* 128dp+8x3+4x2+2x1+x0, dp at bit 7, x3..x0 at bits 3..0 and bits 6..4
\* clear, and get_x4x3x2x1_encoding the byte 8x3+4x2+2x1+x0 whatever dp is.
C15_BcdDotInBit7 ==
    LET v == Encoded
    IN  /\ call.op = "get_dpx4x3x2x1_encoding" =>
              /\ call.ret = <<128 * v.dp + 8 * v.x3 + 4 * v.x2 + 2 * v.x1 + v.x0>>
              /\ \A k \in 4..6 : Bit(call.ret[1], k) = 0
        /\ call.op = "get_x4x3x2x1_encoding" =>
              call.ret = <<8 * v.x3 + 4 * v.x2 + 2 * v.x1 + v.x0>>

\* C15 witness: the entry of "!" of BCD_SEGMENTS, whose dot is on, has been
\* encoded by get_dpx4x3x2x1_encoding.
C15_Witness ==
    /\ call.op = "get_dpx4x3x2x1_encoding"
    /\ operands[call.self] = <<"BCD_SEGMENTS", 33>>
    /\ call.ret = <<129>>

\* C16: for every ASCII_SEGMENTS entry and its dot-on copy
\* get_ascii_encoding returns the byte ascii_value whatever dp is, and
\* get_ascii_with_dp_encoding returns ascii_value + 128 when dp is on and
\* ascii_value otherwise: one byte in 0..255 whose bit 7 is dp and whose low
\* seven bits are ascii_value.
C16_AsciiEncodings ==
    LET v == Encoded
    IN  /\ call.op = "get_ascii_encoding" => call.ret = <<v.ascii_value>>
        /\ call.op = "get_ascii_with_dp_encoding" =>
              /\ v.ascii_value \in 0..127
              /\ call.ret = <<IF v.dp = 1 THEN v.ascii_value + 128 ELSE v.ascii_value>>
              /\ Len(call.ret) = 1
              /\ call.ret[1] \in 0..255
              /\ call.ret[1] \div 128 = v.dp
              /\ call.ret[1] % 128 = v.ascii_value

\* C16 witness: the dot-on copy of the entry of code 127 has been encoded by
\* get_ascii_with_dp_encoding.
C16_Witness ==
    /\ call.op = "get_ascii_with_dp_encoding"
    /\ call.self = 3
    /\ operands[1] = <<"ASCII_SEGMENTS", 127>>
    /\ call.ret = <<255>>

\* The reference held by an element of segments.
ElemRef(elem) ==
    IF fn = "map_segment_text_to_segments_with_color" THEN elem[1] ELSE elem

\* C17 as stated: no element of a returned sequence is the same object as an
\* entry stored in a table or as another element of the same sequence.
C17_OutputsAreCopies ==
    pc = "done" =>
        /\ \A i \in 1..Len(segments) : ElemRef(segments[i])[1] \notin TableNames
        /\ \A i, j \in 1..Len(segments) :
              i # j => ElemRef(segments[i]) # ElemRef(segments[j])

\* C17 amended: every element of a returned sequence is either the object
\* stored in the table of the call itself, which then still has the fields
\* the module gave it and may occur at several positions, or an object that
\* copy_with_dp_on created during the call, which has its dot on, is no
\* table entry and occurs at one position only.
C17_SharesTableEntries ==
    pc = "done" =>
        \A i \in 1..Len(segments) :
            LET ref == ElemRef(segments[i])
            IN  \/ /\ ref[1] = segment_mapping
                   /\ ref[2] \in DOMAIN TableOf(segment_mapping)
                   /\ ref \notin DOMAIN heap
                \/ /\ ref[1] = "new"
                   /\ ref[2] \in 1..nextobj
                   /\ ref \in DOMAIN heap
                   /\ heap[ref].dp = 1
                   /\ \A j \in 1..Len(segments) :
                         j # i => ElemRef(segments[j]) # ref

\* C17 witness: a returned sequence holds the stored " " entry at two
\* positions, the stored entry of a character and a dot-on copy.
C17_Witness ==
    /\ pc = "done"
    /\ fn = "map_text_to_segments"
    /\ segment_mapping = "SEVEN_SEGMENTS"
    /\ Len(segments) = 4
    /\ segments[1] = <<"SEVEN_SEGMENTS", SPACE>>
    /\ segments[2] = <<"SEVEN_SEGMENTS", SPACE>>
    /\ segments[3] = NewRef(1)
    /\ segments[4] = <<"SEVEN_SEGMENTS", 33>>

\* C12: map_segment_text_to_segments_with_color returns, for the same
\* arguments, as many elements as map_segment_text_to_segments, the first
\* component of each is value-equal to the element at the same index of the
\* other result, the elements that come from input cells carry the colors of
\* those cells, last cell last, and every padding element in front of them
\* is white.
C12_ColorsFollowCells ==
    (Finished(inv[1]) /\ Finished(inv[2])) =>
        /\ inv[1].pc = inv[2].pc
        /\ inv[2].pc = "done" =>
              LET plain == inv[1].returned
                  colored == inv[2].returned
                  cells == inv[2].text
                  pads == Len(colored) - Len(cells)
              IN  /\ Len(colored) = Len(plain)
                  /\ \A k \in 1..Len(colored) :
                        /\ colored[k][1] = plain[k]
                        /\ k <= pads => colored[k][2] = White
                        /\ k > pads => colored[k][2] = cells[k - pads].color

\* Both calls returned a padded sequence whose last element is the dot-on
\* copy of a red cell's table value.
C12_Witness ==
    /\ inv[1].pc = "done"
    /\ inv[2].pc = "done"
    /\ Len(inv[2].segments) > Len(inv[2].text)
    /\ Len(inv[2].text) > 0
    /\ inv[2].text[Len(inv[2].text)].dot
    /\ inv[2].text[Len(inv[2].text)].color = "red"
    /\ inv[2].segments[Len(inv[2].segments)][1][1] = "new"

\* The arguments of the invocation with the locals loc, as the locals of its
\* start.
ArgsOf(loc) ==
    Start(loc.fn, loc.text, loc.display_width, loc.segment_mapping, loc.embed_dots)

\* The outcome of the invocation with the locals loc when nothing else runs.
Alone(loc) == RunAlone(EmptyHeap, 0, ArgsOf(loc)).loc

\* C18: whatever steps of a mapper call and calls of copy_with_dp_on,
\* __eq__ and the encoders have been taken, every entry of every table has
\* the fields it had after module initialisation.  (No statement of the
\* source assigns to, or deletes from, a table, so the key sets are fixed.)
\* (An entry the heap holds no object for is the object of the table.)
C18_TablesKeepEntries ==
    \A ref \in DOMAIN heap :
        ref \in TableRefs => Deref(heap, ref) = TableOf(ref[1])[ref[2]]

\* The mapper call made a dot-on copy and returned, a copy of a table entry
\* was made outside of it, and an encoder or a comparison has been called.
C18_Witness ==
    /\ inv[1].pc = "done"
    /\ \E k \in 1..Len(inv[1].segments) :
          (IF inv[1].fn = "map_segment_text_to_segments_with_color"
           THEN inv[1].segments[k][1] ELSE inv[1].segments[k])[1] = "new"
    /\ Len(operands) > 2
    /\ call.op \notin {"none", "copy_with_dp_on"}

\* C19: an invocation whose steps are interleaved in any order with the
\* steps of the other invocations on the same table finishes as it finishes
\* alone and returns the same values, element by element.
C19_AsIfAlone ==
    \A i \in DOMAIN inv :
        Finished(inv[i]) =>
            /\ inv[i].pc = Alone(inv[i]).pc
            /\ inv[i].returned = Alone(inv[i]).returned

\* The invocations returned; one returned a dot-on copy it made of the
\* entry of "1", another that entry itself.
C19_Witness ==
    /\ \A i \in DOMAIN inv : inv[i].pc = "done"
    /\ \E i, j \in DOMAIN inv :
          /\ inv[i].fn = "map_text_to_segments"
          /\ inv[j].fn = "map_text_to_segments"
          /\ inv[i].segments[Len(inv[i].segments)][1] = "new"
          /\ inv[j].segments[Len(inv[j].segments)] = <<segment_mapping, 49>>

\* Value equality of two returned elements, as __eq__ decides it, with
\* equal colors where they are paired with colors.
SameValue(f, a, b) ==
    IF f = "map_segment_text_to_segments_with_color"
    THEN PublicAttrs(a[1]) = PublicAttrs(b[1]) /\ a[2] = b[2]
    ELSE PublicAttrs(a) = PublicAttrs(b)

\* The codes looked up by the invocations.
LookedUp == {49, PERIOD, SPACE}

\* The fields of what the lookup of each code returns after module
\* initialisation.
InitialLookups ==
    [mapping \in ConcTables |->
        [code \in LookedUp |-> PublicAttrs(Deref(EmptyHeap, DictGet(mapping, code)))]]

\* C20: two invocations with equal arguments finish alike and return
\* value-equal sequences, whatever mapper call and whatever calls of
\* copy_with_dp_on and the encoders were made before or between them; and
\* the lookup of a code returns
\* in every state a value equal to the one it returned after module
\* initialisation, so two lookups of one code are value-equal.
C20_Stateless ==
    /\ \A i, j \in DOMAIN inv :
          (ArgsOf(inv[i]) = ArgsOf(inv[j]) /\ Finished(inv[i]) /\ Finished(inv[j])) =>
              /\ inv[i].pc = inv[j].pc
              /\ Len(inv[i].returned) = Len(inv[j].returned)
              /\ \A k \in 1..Len(inv[i].returned) :
                    SameValue(inv[i].fn, inv[i].returned[k], inv[j].returned[k])
    /\ \A code \in LookedUp :
          PublicAttrs(Deref(heap, DictGet(segment_mapping, code)))
              = InitialLookups[segment_mapping][code]

\* Two invocations with the same arguments returned the entry of "1";
\* between them another invocation made a dot-on copy of that entry, and
\* copy_with_dp_on was called on it outside of the invocations as well.
C20_Witness ==
    /\ inv[1] = inv[3]
    /\ inv[1].pc = "done"
    /\ inv[2].pc = "done"
    /\ call.op \notin {"none", "copy_with_dp_on"}
    /\ \E k \in 1..Len(inv[2].segments) : inv[2].segments[k][1] = "new"
    /\ \E k \in 1..Len(inv[1].segments) : inv[1].segments[k] = <<segment_mapping, 49>>
    /\ Len(operands) > 2

\* C21: every mapper call reaches its return; no lookup raises; the scan
\* cursor of map_text_to_segments never exceeds the length of the text and
\* every iteration moves it by 1 or by 2; and the padding loop inserts at
\* most display_width elements.
C21_TerminatesWithoutRaising ==
    /\ <>(pc = "done")
    /\ [](/\ pc # "KeyError"
          /\ text_position <= Len(text)
          /\ (pc \in {"pad", "done"} /\ Len(segments) > Len(percell)) =>
                Len(segments) <= display_width)
    /\ [][/\ (pc = "scan" /\ pc' = "scan") =>
                /\ text_position' - text_position \in {1, 2}
                /\ Len(segments') = Len(segments) + 1
          /\ (pc = "pad" /\ pc' = "pad") =>
                /\ Len(segments) < display_width
                /\ Len(segments') = Len(segments) + 1]_vars

\* map_text_to_segments has returned for a text of unmapped characters and
\* periods whose last period was merged, after padding.
C21_Witness ==
    /\ pc = "done"
    /\ fn = "map_text_to_segments"
    /\ Len(text) = TermMaxLen
    /\ text[1] = Unmapped
    /\ text[Len(text)] = PERIOD
    /\ Len(percell) < Len(text)
    /\ Len(segments) > Len(percell)

\* map_text_to_segments("1.2.3.", 3, SEVEN_SEGMENTS) returns the dot-on
\* values of "1", "2" and "3".
DotsExample ==
    LET ret == RunAlone(EmptyHeap, 0,
                        Start("map_text_to_segments", <<49, PERIOD, 50, PERIOD, 51, PERIOD>>,
                              3, "SEVEN_SEGMENTS", TRUE)).loc
    IN  /\ ret.pc = "done"
        /\ ret.returned = <<WithDotOn(SEVEN_SEGMENTS[49]), WithDotOn(SEVEN_SEGMENTS[50]),
                            WithDotOn(SEVEN_SEGMENTS[51])>>

\* C22: map_text_to_segments normalises the width of the list of cells it
\* has after merging the periods: a list of at most display_width cells is
\* returned whole, behind the padding, however many characters the text has;
\* the cells returned are the last cells of that list, each the very object
\* the scan produced; and neither truncation nor padding creates or changes
\* an object, so the dot of a dropped cell lights no kept cell.
C22_MergesBeforeWidth ==
    /\ DotsExample
    /\ []((fn = "map_text_to_segments" /\ pc = "done") =>
             /\ Len(percell) <= display_width =>
                   LastN(segments, Len(percell)) = percell
             /\ \A k \in 1..Len(segments) :
                   k <= Len(percell) =>
                      segments[Len(segments) - k + 1] = percell[Len(percell) - k + 1]
             /\ Len(segments) < Len(percell) => Len(segments) = display_width)
    /\ [][(fn = "map_text_to_segments" /\ pc # "scan") => heap' = heap]_vars

\* A text of more characters than display_width was returned whole, its
\* periods merged into the cells in front of them.
C22_Witness ==
    /\ fn = "map_text_to_segments"
    /\ pc = "done"
    /\ Len(text) > display_width
    /\ Len(percell) = display_width
    /\ Len(percell) >= 2
    /\ \A k \in 1..Len(percell) : percell[k][1] = "new"
    /\ segments = percell

\* The x3..x0 flags of a BcdSegments value.
BcdFlags(v) == <<v.x3, v.x2, v.x1, v.x0>>

\* The flags of "!" and "1", and of "?" and "2", in BCD_SEGMENTS.
BcdAliases ==
    /\ BcdFlags(BCD_SEGMENTS[33]) = BcdFlags(BCD_SEGMENTS[49])
    /\ BcdFlags(BCD_SEGMENTS[63]) = BcdFlags(BCD_SEGMENTS[50])
    /\ BCD_SEGMENTS[33].dp = 1 /\ BCD_SEGMENTS[63].dp = 1
    /\ BCD_SEGMENTS[49].dp = 0 /\ BCD_SEGMENTS[50].dp = 0

\* The digit whose flags the BCD_SEGMENTS entry of "!" or "?" has.
AliasedDigit(key) == IF key = 33 THEN 49 ELSE 50

\* C23: in BCD_SEGMENTS "!" has the x3..x0 flags of "1" and "?" those of
\* "2", with the dot on where the digits have it off; get_x4x3x2x1_encoding
\* returns for "!" and "?" the byte of the digit, and
\* get_dpx4x3x2x1_encoding a byte that differs from the digit's in bit 7 and
\* in no other bit.
C23_BcdAliasesDigits ==
    /\ BcdAliases
    /\ \A key \in {33, 63} :
          LET digit == BCD_SEGMENTS[AliasedDigit(key)]
          IN  /\ (/\ call.op = "get_x4x3x2x1_encoding"
                  /\ operands[call.self] = <<"BCD_SEGMENTS", key>>) =>
                     call.ret = get_x4x3x2x1_encoding(digit)
              /\ (/\ call.op = "get_dpx4x3x2x1_encoding"
                  /\ operands[call.self] = <<"BCD_SEGMENTS", key>>) =>
                     /\ Len(call.ret) = 1
                     /\ \A k \in 0..7 :
                           (Bit(call.ret[1], k)
                               # Bit(get_dpx4x3x2x1_encoding(digit)[1], k)) <=> k = 7

\* The entry of "?" of BCD_SEGMENTS has been encoded by
\* get_dpx4x3x2x1_encoding: the byte of "2" with bit 7 set.
C23_Witness ==
    /\ call.op = "get_dpx4x3x2x1_encoding"
    /\ operands[call.self] = <<"BCD_SEGMENTS", 63>>
    /\ call.ret = <<130>>

\* The bits of each byte in which an encoder packs the dot.
DotBits(encoder) ==
    CASE encoder \in {"get_dpx4x3x2x1_encoding", "get_dpgfedcba_encoding",
                      "get_dpgfeabcd_encoding", "get_ascii_with_dp_encoding"} -> <<{7}>>
      [] encoder \in {"get_x4x3x2x1_encoding", "get_gfedcba_encoding",
                      "get_hgfedcba_encoding", "get_ascii_encoding"} -> <<{}>>
      [] encoder = "get_pinmame_encoding" -> <<{}, {7}>>
      [] encoder = "get_apc_encoding" -> <<{7}, {6}>>
      [] encoder = "get_vpe_encoding" -> <<{}, {6}>>

\* byte with the bits of positions forced to 1.
RECURSIVE ForceBits(_, _)
ForceBits(byte, positions) ==
    IF positions = {} THEN byte
    ELSE LET k == CHOOSE k \in positions : TRUE
             rest == ForceBits(byte, positions \ {k})
         IN  IF Bit(rest, k) = 1 THEN rest ELSE rest + 2^k

\* C25: an encoder called on a dot-on copy returns the bytes it returns for
\* the value the copy was made from, with the bits in which it packs the dot
\* forced to 1 and no other bit changed; the encoders that pack no dot
\* return the same bytes for both.
C25_DotBitsOnly ==
    (call.op \notin {"none", "copy_with_dp_on"} /\ call.self >= 3) =>
        LET original == Encode(call.op, Deref(heap, operands[CopiedFrom(call.self)]))
        IN  /\ Len(call.ret) = Len(DotBits(call.op))
            /\ Len(original) = Len(call.ret)
            /\ \A b \in 1..Len(call.ret) :
                  call.ret[b] = ForceBits(original[b], DotBits(call.op)[b])

\* get_apc_encoding has been called on the dot-on copy of a table entry
\* whose dot is off.
C25_Witness ==
    /\ call.op = "get_apc_encoding"
    /\ call.self = 3
    /\ Deref(heap, operands[1]).dp = 0
    /\ Bit(call.ret[1], 7) = 1
    /\ Bit(call.ret[2], 6) = 1

\* The byte of the hexadecimal digit with the character code key.
HexValue(key) ==
    IF key \in 48..57 THEN key - 48
    ELSE IF key \in 65..70 THEN key - 55
    ELSE key - 87

\* C29: get_x4x3x2x1_encoding returns for the BCD_SEGMENTS entry of a digit
\* "0".."9" the byte of that digit, and both BCD encoders return for the
\* entries of "A".."F" and of "a".."f" the bytes 10..15, the same for the
\* upper and the lower case of a letter.
C29_BcdHexDigits ==
    /\ (48..57) \cup (65..70) \cup (97..102) \subseteq DOMAIN BCD_SEGMENTS
    /\ \A key \in (48..57) \cup (65..70) \cup (97..102) :
          /\ (/\ call.op = "get_x4x3x2x1_encoding"
              /\ operands[call.self] = <<"BCD_SEGMENTS", key>>) =>
                 call.ret = <<HexValue(key)>>
          /\ (/\ call.op = "get_dpx4x3x2x1_encoding"
              /\ operands[call.self] = <<"BCD_SEGMENTS", key>>
              /\ key >= 65) =>
                 call.ret = <<HexValue(key)>>

\* get_x4x3x2x1_encoding has been called on the entry of "e".
C29_Witness ==
    /\ call.op = "get_x4x3x2x1_encoding"
    /\ operands[call.self] = <<"BCD_SEGMENTS", 101>>
    /\ call.ret = <<14>>

\* C24 as stated: no call of an entry point fails during mapping because
\* the mapping it was given has no entry for the key None.
C24_NoFailureInMapping ==
    None \notin DOMAIN TableOf(segment_mapping) => pc # "KeyError"

\* C26: map_text_to_segments with embed_dots off returns what
\* map_segment_text_to_segments returns for the cells of the text, one per
\* character with its dot off: the same objects in the same order and the
\* same values.  Its scan emits one cell per character, periods included,
\* every one a table entry, and creates no object.
C26_EmbedOffIsCells ==
    /\ \A k \in 1..Len(inv[1].segments) : inv[1].segments[k] \in TableRefs
    /\ inv[1].pc = "scan" => Len(inv[1].segments) = inv[1].text_position
    /\ inv[1].pc \in {"pad", "done"} => Len(inv[1].percell) = Len(text)
    /\ Finished(inv[1]) => nextobj = 0
    /\ (Finished(inv[1]) /\ Finished(inv[2])) =>
          /\ inv[1].pc = inv[2].pc
          /\ inv[1].segments = inv[2].segments
          /\ inv[1].returned = inv[2].returned

\* Both calls returned for "1." on two cells of a table whose "1" has its
\* dot off: the period has its own cell.
C26_Witness ==
    /\ text = <<49, PERIOD>>
    /\ segment_mapping = "SEVEN_SEGMENTS"
    /\ display_width = 2
    /\ inv[1].pc = "done" /\ inv[2].pc = "done"
    /\ inv[1].returned = <<SEVEN_SEGMENTS[49], SEVEN_SEGMENTS[PERIOD]>>
    /\ inv[2].returned = inv[1].returned

\* The cells the scan of map_text_to_segments has produced: segments while
\* it scans, the list the scan left afterwards.
ScanCells == IF pc = "scan" THEN segments ELSE percell

\* The cell was produced by copy_with_dp_on, that is, with a period merged.
Merged(cell) == cell[1] = "new"

\* The characters the cells before cell j took: two for a merged cell, one
\* for any other.
RECURSIVE TakenBefore(_, _)
TakenBefore(cells, j) ==
    IF j <= 1 THEN 0
    ELSE TakenBefore(cells, j - 1) + (IF Merged(cells[j - 1]) THEN 2 ELSE 1)

\* The positions of text, from 1, of the periods consumed by merging.
ConsumedPeriods ==
    {TakenBefore(ScanCells, j) + 2 : j \in {i \in 1..Len(ScanCells) : Merged(ScanCells[i])}}

\* C27: in map_text_to_segments the cells produced before the width is
\* applied number k = n - (periods consumed by merging) for a text of n
\* characters, with ceil(n/2) <= k <= n when embed_dots is on and k = n when
\* it is off; a consumed period is a period of the text that comes right
\* after the character of the cell it was merged into, and no two
\* characters in a row are consumed.
C27_CellCount ==
    fn = "map_text_to_segments" =>
      /\ text_position = Len(ScanCells) + Cardinality(ConsumedPeriods)
      /\ \A p \in ConsumedPeriods :
            /\ p \in 2..Len(text)
            /\ text[p] = PERIOD
            /\ p - 1 \notin ConsumedPeriods
            /\ \E j \in 1..Len(ScanCells) :
                  /\ TakenBefore(ScanCells, j) + 1 = p - 1
                  /\ Merged(ScanCells[j])
                  /\ Deref(heap, ScanCells[j]) =
                        WithDotOn(ExpectedEntry(segment_mapping, text[p - 1]))
      /\ \A j \in 1..Len(ScanCells) :
            ~Merged(ScanCells[j]) =>
              ScanCells[j] = <<segment_mapping,
                               IF text[TakenBefore(ScanCells, j) + 1]
                                    \in DOMAIN TableOf(segment_mapping)
                               THEN text[TakenBefore(ScanCells, j) + 1] ELSE None>>
      /\ pc \in {"pad", "done"} =>
            /\ Len(percell) = Len(text) - Cardinality(ConsumedPeriods)
            /\ Len(percell) <= Len(text)
            /\ 2 * Len(percell) >= Len(text)
            /\ ~embed_dots => Len(percell) = Len(text)

\* "1.1." scanned with embed_dots on: four characters, two cells, the
\* periods at positions 2 and 4 consumed.
C27_Witness ==
    /\ fn = "map_text_to_segments"
    /\ embed_dots
    /\ pc = "done"
    /\ text = <<49, PERIOD, 49, PERIOD>>
    /\ Len(percell) = 2
    /\ ConsumedPeriods = {2, 4}

\* The tables whose "." entry has its dot on.
DotOnPeriodTables ==
    {"SEVEN_SEGMENTS", "EIGHT_SEGMENTS", "FOURTEEN_SEGMENTS", "SIXTEEN_SEGMENTS"}

\* C28: with embed_dots on, a period that follows a character is merged
\* into its cell exactly when the value looked up for that character has
\* its dot off.  So ".." gives two cells, each the "." entry, in the tables
\* whose "." has its dot on (Seven, Eight, Fourteen, Sixteen), and one cell
\* in the others: the "." entry with its dot turned on in ASCII_SEGMENTS,
\* the fallback entry with its dot turned on in BCD_SEGMENTS, which has no
\* "." entry.
C28_MergeFollowsTableDot ==
    (fn = "map_text_to_segments" /\ embed_dots) =>
      /\ \A j \in 1..Len(ScanCells) :
            LET first == TakenBefore(ScanCells, j) + 1
                looked_up == ExpectedEntry(segment_mapping, text[first])
            IN  (first < Len(text) /\ text[first + 1] = PERIOD) =>
                  (Merged(ScanCells[j]) <=> looked_up.dp = 0)
      /\ (text = <<PERIOD, PERIOD>> /\ pc \in {"pad", "done"}) =>
            /\ segment_mapping \in DotOnPeriodTables =>
                  /\ TableOf(segment_mapping)[PERIOD].dp = 1
                  /\ percell = <<<<segment_mapping, PERIOD>>, <<segment_mapping, PERIOD>>>>
            /\ segment_mapping = "ASCII_SEGMENTS" =>
                  /\ ASCII_SEGMENTS[PERIOD].dp = 0
                  /\ Len(percell) = 1
                  /\ Merged(percell[1])
                  /\ Deref(heap, percell[1]) = WithDotOn(ASCII_SEGMENTS[PERIOD])
            /\ segment_mapping = "BCD_SEGMENTS" =>
                  /\ PERIOD \notin DOMAIN BCD_SEGMENTS
                  /\ BCD_SEGMENTS[None].dp = 0
                  /\ Len(percell) = 1
                  /\ Merged(percell[1])
                  /\ Deref(heap, percell[1]) = WithDotOn(BCD_SEGMENTS[None])
            /\ (pc = "done" /\ display_width = Len(percell)) => segments = percell

\* ".." returned on two cells by a table whose "." has its dot on.
C28_Witness ==
    /\ fn = "map_text_to_segments"
    /\ embed_dots
    /\ text = <<PERIOD, PERIOD>>
    /\ segment_mapping = "FOURTEEN_SEGMENTS"
    /\ display_width = 2
    /\ pc = "done"
    /\ Len(segments) = 2
    /\ Deref(heap, segments[1]) = FOURTEEN_SEGMENTS[PERIOD]

\* The number of cells the padding has put in front of the scanned ones.
PadCount ==
    IF pc \in {"pad", "done"} /\ Len(segments) > Len(percell)
    THEN Len(segments) - Len(percell)
    ELSE 0

\* The table object of element k of segments.
PadRef(k) ==
    IF fn = "map_segment_text_to_segments_with_color" THEN segments[k][1] ELSE segments[k]

\* C30: BCD_SEGMENTS has no entry for " ", so every padding cell any entry
\* point produces with it is its fallback entry, whose bytes under both BCD
\* encoders are those of the "0" entry, 0x00; with each of the other five
\* tables the padding cell is the entry of " " (code 32).
C30_BcdPadsWithFallback ==
    /\ SPACE \notin DOMAIN BCD_SEGMENTS
    /\ \A name \in TableNames \ {"BCD_SEGMENTS"} : SPACE \in DOMAIN TableOf(name)
    /\ \A k \in 1..PadCount :
          IF segment_mapping = "BCD_SEGMENTS"
          THEN /\ PadRef(k) = <<"BCD_SEGMENTS", None>>
               /\ \A encoder \in Encoders("BcdSegments") :
                     /\ Encode(encoder, Deref(heap, PadRef(k))) = <<0>>
                     /\ Encode(encoder, Deref(heap, PadRef(k)))
                          = Encode(encoder, BCD_SEGMENTS[48])
          ELSE PadRef(k) = <<segment_mapping, SPACE>>

\* "1" returned on three cells with BCD_SEGMENTS: two padding cells, then
\* the cell of "1", which does not encode as the padding does.
C30_Witness ==
    /\ fn = "map_text_to_segments"
    /\ text = <<49>>
    /\ segment_mapping = "BCD_SEGMENTS"
    /\ display_width = 3
    /\ pc = "done"
    /\ PadCount = 2
    /\ Encode("get_x4x3x2x1_encoding", Deref(heap, segments[1])) = <<0>>
    /\ Encode("get_x4x3x2x1_encoding", Deref(heap, segments[3])) = <<1>>

====
